---- MODULE Spec2Model ----
(***************************************************************************)
(* Distillation orchestration and state versioning of phosphor.            *)
(*                                                                         *)
(* The committed database (raw_signals, lab_states, distillation_runs) is  *)
(* shared; every Celery task invocation works in its own SQLAlchemy        *)
(* session whose writes are private until session.commit() and discarded   *)
(* when the session is closed without a commit.  PostgreSQL runs the       *)
(* statements of a session under READ COMMITTED: each statement reads the  *)
(* rows committed at the moment it executes.                               *)
(***************************************************************************)
EXTENDS Integers, Sequences, FiniteSets, TLC

\* ---------------------------------------------------------------- bounds
MaxSignals == 2
MaxLen == 5
MaxRuns == 2

\* ------------------------------------------------------ program constants
max_retries == 3
DefaultLimit == 10
max_state_tokens == 2000
None == 0 - 1

Labs == {"labA", "labB"}
Workers == {"w1", "w2"}
Orgs == {"orgA", "orgB"}
Clients == {"c1", "c2"}

\* An id no row ever gets: gen_random_uuid() never returns an id a caller
\* made up beforehand.
Ghost == 0

VARIABLES
    labs,               \* the labs table: ids of the labs that exist
    pool,               \* the Celery worker processes that are running
    sizes,              \* token counts the documents of the capability can measure
    capacity,           \* number of signals the clients submit in all
    budget,             \* number of run ids the attempts take in all
    audit_up,           \* outcomes the insert into audit_logs can have
    clients,            \* the API clients that send requests
    clerk_org_id,       \* the labs table: the organisation of each lab
    request,            \* per API client: the POST request it has open
    response,           \* the response to the last API request
    audit_logs,         \* number of committed audit_logs rows
    raw_signals,        \* committed raw_signals rows in the order of their commits;
                        \* a row's id is its index
    lab_states,         \* committed lab_states rows, in insertion order
    distillation_runs,  \* committed distillation_runs rows, in insertion order
    run_seq,            \* number of run ids handed out so far
    task,               \* per worker: the distill_lab_state invocation it executes
    session,            \* per worker: the uncommitted writes of its session
    reply               \* a compression response on its way through the parser

\* what a scenario fixes
deployment == <<pool, sizes, capacity, budget, audit_up, clients>>

\* what only the API requests write
api == <<clerk_org_id, request, response, audit_logs>>

vars == <<reply, deployment, api, labs, raw_signals, lab_states, distillation_runs, run_seq,
          task, session>>

\* ------------------------------------------------------------ helpers
SignalIdsOf(rows) == 1..Len(rows)

RECURSIVE SeqToSet(_)
SeqToSet(s) == IF s = <<>> THEN {} ELSE {Head(s)} \cup SeqToSet(Tail(s))

\* order_by(created_at).limit(n): the first n of the rows S in ascending
\* order of created_at; the k-th is the row with k - 1 older ones
TakeAscending(rows, S, n) ==
    [k \in 1..(IF Cardinality(S) < n THEN Cardinality(S) ELSE n) |->
        CHOOSE x \in S :
            Cardinality({y \in S : rows[y].created_at < rows[x].created_at}) = k - 1]

\* LabStateData(signal_count=0).model_dump()
create_empty_state == [body |-> "ok", signal_count |-> 0]

\* LabStateData.model_validate: every list and field of the document meets its
\* constraints (body) and signal_count is an int with ge=0
LabStateData_model_validate(data) == data.body = "ok" /\ data.signal_count >= 0

\* validated_state.signal_count = current_state_data.get("signal_count", 0) + len(signals)
UpdateSignalCount_KeepsResponse(current_state_data, signals, resp) == resp.signal_count
UpdateSignalCount(current_state_data, signals, resp) ==
    current_state_data.signal_count + Cardinality(signals)

\* select(LabState).where(lab_id == lab).order_by(version.desc()).limit(1)
LabVersions(rows, lab) ==
    {rows[i].version : i \in {j \in 1..Len(rows) : rows[j].lab_id = lab}}

current_state_Oldest(rows, lab) ==
    LET idx == {j \in 1..Len(rows) : rows[j].lab_id = lab}
    IN IF idx = {} THEN <<>>
       ELSE LET top == CHOOSE i \in idx : \A j \in idx : rows[i].version <= rows[j].version
            IN <<rows[top]>>

current_state(rows, lab) ==
    LET idx == {j \in 1..Len(rows) : rows[j].lab_id = lab}
    IN IF idx = {} THEN <<>>
       ELSE LET top == CHOOSE i \in idx : \A j \in idx : rows[j].version <= rows[i].version
            IN <<rows[top]>>

get_unprocessed_signals_NewestFirst(rows, lab, limit) ==
    LET found == {i \in 1..Len(rows) : rows[i].lab_id = lab /\ ~rows[i].processed}
        all == TakeAscending(rows, found, Cardinality(found))
    IN IF Len(all) <= limit THEN all ELSE SubSeq(all, Len(all) - limit + 1, Len(all))

get_unprocessed_signals_AnyFlag(rows, lab, limit) ==
    TakeAscending(rows, {i \in 1..Len(rows) : rows[i].lab_id = lab}, limit)

\* select(RawSignal).where(lab_id == lab, processed == False)
\*   .order_by(created_at).limit(limit)
get_unprocessed_signals(rows, lab, limit) ==
    TakeAscending(rows, {i \in 1..Len(rows) : rows[i].lab_id = lab /\ ~rows[i].processed},
                  limit)

\* select(RawSignal).where(RawSignal.id.in_(signal_ids))
ResolveSignals(rows, ids) == {i \in 1..Len(rows) : i \in ids}

\* update(RawSignal).where(RawSignal.id.in_(signal_ids)).values(processed=True)
UpdateTargets_NoWhere(rows, ids) == 1..Len(rows)
UpdateTargets(rows, ids) == {i \in 1..Len(rows) : i \in ids}

\* `if signal_ids:` - None and the empty list are both falsy
Truthy(signal_ids) == ~signal_ids.none /\ signal_ids.ids # {}

NoRequest == [none |-> TRUE, ids |-> {}]

EmptySession == [run |-> <<>>, new_state |-> <<>>, marked |-> {}, flushed |-> FALSE]

IdleTask ==
    [pc |-> "idle", lab_id |-> "labA", signal_ids |-> NoRequest, retries |-> 0,
     ids |-> {}, input_version |-> None, new_version |-> 0,
     current_state_data |-> create_empty_state, signals |-> {},
     run_id |-> 0, reason |-> "none", countdown |-> 0, lost |-> 0, seen |-> 0]

\* the locals of one invocation, cleared when the task body is entered again
FreshAttempt(t) ==
    [t EXCEPT !.ids = {}, !.input_version = None, !.new_version = 0,
              !.current_state_data = create_empty_state, !.signals = {},
              !.run_id = 0, !.reason = "none", !.seen = 0]

\* the locals of run_distillation are gone once it has raised or returned;
\* ids remembers, for the properties, the batch of the attempt that failed
Raised(t, why) ==
    [t EXCEPT !.pc = "raised", !.reason = why, !.signals = {},
              !.current_state_data = create_empty_state, !.seen = 0]

\* what the compression capability may answer
Responses ==
    {[kind |-> k, body |-> "ok", signal_count |-> 0, tokens |-> 0] :
        k \in {"timeout", "unparseable"}}
    \cup {[kind |-> "json", body |-> b, signal_count |-> c, tokens |-> t] :
             b \in {"ok", "bad"}, c \in {0 - 1, 0, 5},
             t \in sizes}

\* a route without {lab_id} in its path
NoLab == "none"

\* the response to a request: the route, the status, the {lab_id} of the path,
\* the rows of the body and, of a list response, its total
Answer(op, status, lab, body) ==
    [op |-> op, status |-> status, lab |-> lab, body |-> body, total |-> None]
NoResponse == Answer("none", 0, NoLab, <<>>)

\* SignalListResponse(signals, total), LabStateHistoryResponse(states, total)
ListResponse(op, lab, body, total) == [Answer(op, 200, lab, body) EXCEPT !.total = total]

\* a client without an open request; of an open request: the route, the
\* user's organisation, the lab, the row its session has flushed and not
\* yet committed, the body the handler has returned; of a GET request, the
\* signals its session has loaded with the lab, the query parameter
\* processed, the signal_id of the path and the total it has counted
IdleRequest == [pc |-> "idle", op |-> "none", org |-> "orgA", lab |-> "labA",
                row |-> <<>>, body |-> <<>>, loaded |-> <<>>, processed |-> BOOLEAN,
                signal_id |-> 0, total |-> 0]

\* the organisation of the labs of a scenario
OrgOfLab == [l \in Labs |-> IF l = "labA" THEN "orgA" ELSE "orgB"]

\* ------------------------------------------------ the response text
\* A text is a sequence of tokens: the fence ```, the info string after an
\* opening fence, the line break, the blank, and the tokens of JSON
\* documents: the brackets of an array and the number 0.
Fence == "fence"
Tag == "json"
Newline == "\n"
Blank == " "
JsonTokens == {"[", "]", "0"}
Whitespace == {Newline, Blank}

RECURSIVE Texts(_)
Texts(n) ==
    IF n = 0 THEN {<<>>}
    ELSE Texts(n - 1) \cup {Append(t, x) : t \in Texts(n - 1), x \in JsonTokens \cup {Newline}}

\* the JSON values these tokens write: 0, [], and an array of one value
\* (two values side by side, with or without white space between them, are
\* not JSON: 00 and [0 0] are rejected by the decoder)
RECURSIVE JsonValue(_)
JsonValue(tokens) ==
    \/ tokens = <<"0">>
    \/ /\ Len(tokens) >= 2
       /\ tokens[1] = "[" /\ tokens[Len(tokens)] = "]"
       /\ LET inner == SubSeq(tokens, 2, Len(tokens) - 1)
          IN inner = <<>> \/ JsonValue(inner)

\* json.loads: white space between the tokens is insignificant; a text that
\* is not one whole JSON value raises; the value is given by its tokens
ParseError == <<"JSONDecodeError">>
json_loads(text) ==
    LET tokens == SelectSeq(text, LAMBDA x : x \notin Whitespace)
    IN IF JsonValue(tokens) THEN tokens ELSE ParseError

\* the state documents: the texts json.loads accepts, without white space
\* around them
Documents ==
    {t \in Texts(MaxLen) : /\ json_loads(t) # ParseError
                           /\ t[1] \notin Whitespace
                           /\ t[Len(t)] \notin Whitespace}

\* str.strip()
RECURSIVE lstrip(_)
lstrip(text) ==
    IF text # <<>> /\ Head(text) \in Whitespace THEN lstrip(Tail(text)) ELSE text

RECURSIVE rstrip(_)
rstrip(text) ==
    IF text # <<>> /\ text[Len(text)] \in Whitespace
    THEN rstrip(SubSeq(text, 1, Len(text) - 1))
    ELSE text

strip(text) == rstrip(lstrip(text))

\* str.startswith("```")
startswith_fence(text) == text # <<>> /\ Head(text) = Fence

\* str.split("\n"): the lines of a text, one more than its line breaks
RECURSIVE split(_)
split(text) ==
    IF \A i \in 1..Len(text) : text[i] # Newline
    THEN <<text>>
    ELSE LET k == CHOOSE i \in 1..Len(text) :
                      text[i] = Newline /\ \A j \in 1..(i - 1) : text[j] # Newline
         IN <<SubSeq(text, 1, k - 1)>> \o split(SubSeq(text, k + 1, Len(text)))

\* "\n".join(lines)
RECURSIVE join(_)
join(lines) ==
    IF lines = <<>> THEN <<>>
    ELSE IF Len(lines) = 1 THEN lines[1]
    ELSE lines[1] \o <<Newline>> \o join(Tail(lines))

InnerLines_KeepsLast(lines) == SubSeq(lines, 2, Len(lines))

\* lines[1:-1]
InnerLines(lines) == SubSeq(lines, 2, Len(lines) - 1)

\* run_distillation, "Parse response": strip, remove the markdown code
\* block, json.loads
parse_response(content) ==
    LET response_text == strip(content)
    IN IF startswith_fence(response_text)
       THEN json_loads(join(InnerLines(split(response_text))))
       ELSE json_loads(response_text)

\* the ways the capability returns a document: as it is, or in a fenced
\* block, with or without an info string and white space around the block
Forms == {"plain", "fenced", "tagged", "padded"}
Wrap(doc, form) ==
    CASE form = "plain"  -> doc
      [] form = "fenced" -> <<Fence, Newline>> \o doc \o <<Newline, Fence>>
      [] form = "tagged" -> <<Fence, Tag, Newline>> \o doc \o <<Newline, Fence>>
      [] form = "padded" -> <<Blank, Fence, Tag, Newline>> \o doc \o <<Newline, Fence, Newline>>

NoReply == [pc |-> "idle", form |-> "plain", document |-> <<>>, content |-> <<>>,
            candidate |-> <<>>]

InitApi ==
    /\ request = [c \in Clients |-> IdleRequest]
    /\ response = NoResponse
    /\ audit_logs = 0

InitData ==
    /\ InitApi
    /\ raw_signals = <<>>
    /\ lab_states = <<>>
    /\ distillation_runs = <<>>
    /\ run_seq = 0
    /\ task = [w \in Workers |-> IdleTask]
    /\ session = [w \in Workers |-> EmptySession]

\* one lab, two concurrent workers, documents that measure within the budget
Init ==
    /\ labs = {"labA"}
    /\ clerk_org_id = [l \in {"labA"} |-> OrgOfLab[l]]
    /\ pool = Workers
    /\ sizes = {max_state_tokens}
    /\ capacity = MaxSignals - 1
    /\ budget = MaxRuns
    /\ audit_up = {TRUE}
    /\ clients = {"c1"}
    /\ reply = NoReply
    /\ InitData

\* ------------------------------------------------------------ actions

\* every invocation that has not yet reserved its run row may still take one id
RunBudgetLeft ==
    run_seq + Cardinality({w \in Workers : task[w].pc = "selected"})
        < budget

\* AuditLogMiddleware._log_audit_entry: the insert and its commit, or
\* `except Exception: pass`
log_audit_entry(logs, ok) == IF ok THEN logs + 1 ELSE logs

\* AuditLogMiddleware.dispatch for a POST: the response of the handler is
\* returned, with an audit entry attempted for a 2xx status
dispatch_Propagates(status, logs, ok) ==
    [status |-> IF 200 <= status /\ status < 300 /\ ~ok THEN 500 ELSE status,
     audit_logs |-> IF 200 <= status /\ status < 300
                    THEN log_audit_entry(logs, ok) ELSE logs]
dispatch(status, logs, ok) ==
    [status |-> status,
     audit_logs |-> IF 200 <= status /\ status < 300
                    THEN log_audit_entry(logs, ok) ELSE logs]

\* the body of an HTTPException
Detail(text) == <<[detail |-> text]>>

\* get_current_lab: select(Lab).where(Lab.id == lab_id,
\*   Lab.clerk_org_id == user.org_id)
get_current_lab_AnyOrg(org, lab) == {l \in labs : l = lab}
get_current_lab(org, lab) == {l \in labs : l = lab /\ clerk_org_id[l] = org}

\* SignalCreate: signal_type is one of the three kinds; the content dict is
\* given by the kinds whose content schema it validates against (the
\* schemas ignore extra keys, so a dict can validate against several)
Kinds == {"experiment", "document", "correction"}
Contents == {{}, {"experiment"}, {"document"}, {"correction"}, {"experiment", "document"}}
SignalInputs == [signal_type : Kinds, content : Contents]
ExperimentSignal == [signal_type |-> "experiment", content |-> {"experiment"}]

\* SignalCreate.get_typed_content: model_validate of the content against the
\* schema of signal_type; FALSE when it raises
get_typed_content_AnySchema(signal_in) == signal_in.content # {}
get_typed_content(signal_in) == signal_in.signal_type \in signal_in.content

\* RawSignal(lab_id, signal_type, content, created_by); the INSERT fills in
\* the server defaults: processed false, created_at now()
RawSignal_Processed(lab, signal_in, at) ==
    [lab_id |-> lab, signal_type |-> signal_in.signal_type, content |-> signal_in.content,
     processed |-> TRUE, created_at |-> at]
RawSignal(lab, signal_in, at) ==
    [lab_id |-> lab, signal_type |-> signal_in.signal_type, content |-> signal_in.content,
     processed |-> FALSE, created_at |-> at]

\* the rows the sessions of the open requests have flushed and not committed
PendingSignals == {c \in Clients : request[c].pc = "signal_flushed"}

\* now() of PostgreSQL: the time at which the transaction of the request
\* started, later than the start of every transaction before it
now ==
    LET taken == {raw_signals[i].created_at : i \in 1..Len(raw_signals)}
                 \cup {request[c].row[1].created_at : c \in PendingSignals} \cup {0}
    IN 1 + CHOOSE t \in taken : \A u \in taken : u <= t

\* SignalResponse.model_validate(signal): the row with its id
SignalResponse(rows, i) ==
    [id |-> i, lab_id |-> rows[i].lab_id, signal_type |-> rows[i].signal_type,
     content |-> rows[i].content, processed |-> rows[i].processed,
     created_at |-> rows[i].created_at]

\* POST /{lab_id}/signals by a user of organisation org, up to the return of
\* the handler: the session of the request starts its transaction and
\* selects the lab, 404 when the lab is not a lab of the organisation; 422
\* when the content does not validate; otherwise session.add(signal) and
\* session.flush(): the row is inserted and not yet committed.  (The
\* middleware writes no audit entry for a status that is not 2xx.)
create_signal(c, org, lab, signal_in) ==
    LET status == IF get_current_lab(org, lab) = {} THEN 404
                  ELSE IF ~get_typed_content(signal_in) THEN 422
                  ELSE 201
    IN /\ c \in clients
       /\ request[c].pc = "idle"
       /\ IF status = 201
          THEN /\ Len(raw_signals) + Cardinality(PendingSignals) < capacity
               /\ request' = [request EXCEPT ![c] =
                                 [IdleRequest EXCEPT
                                     !.pc = "signal_flushed", !.op = "create_signal",
                                     !.org = org, !.lab = lab,
                                     !.row = <<RawSignal(lab, signal_in, now)>>]]
               /\ UNCHANGED response
          ELSE /\ response' = Answer("create_signal", dispatch(status, audit_logs, TRUE).status,
                                     lab,
                                     IF status = 404 THEN Detail("Lab not found")
                                     ELSE Detail("Invalid content for signal type"))
               /\ UNCHANGED request
       /\ UNCHANGED <<reply, deployment, clerk_org_id, audit_logs, labs, raw_signals,
                      lab_states, distillation_runs, run_seq, task, session>>

\* get_db_with_tenant after the handler of create_signal has returned:
\* session.commit(); the row is visible to every statement from here on
create_signal_commit(c) ==
    /\ request[c].pc = "signal_flushed"
    /\ raw_signals' = raw_signals \o request[c].row
    /\ request' = [request EXCEPT ![c] =
                      [@ EXCEPT !.pc = "committed", !.row = <<>>,
                                !.body = <<SignalResponse(raw_signals \o request[c].row,
                                                          Len(raw_signals) + 1)>>]]
    /\ UNCHANGED <<reply, deployment, clerk_org_id, response, audit_logs, labs, lab_states,
                   distillation_runs, run_seq, task, session>>

\* the ip_address arguments of log_audit_event: its default and an address
Addresses == {"internal", "10.0.0.1"}

\* `:ip_address::inet`: PostgreSQL casts the text of an address and rejects
\* any other text
inet(ip_address) == ip_address # "internal"

\* the audit entries the sessions of callers have inserted and not committed
PendingEvents == {c \in Clients : request[c].pc = "event_flushed"}

\* log_audit_event(session, ...) awaited by business code (no route and no
\* task of the repository calls it): the INSERT into audit_logs through the
\* session of the caller, among the caller's uncommitted writes; an
\* exception of the statement is raised to the caller, whose call ends as
\* an unhandled error.  The callers write entries up to the capacity of the
\* scenario.
log_audit_event(c, ip_address) ==
    /\ c \in clients
    /\ request[c].pc = "idle"
    /\ audit_logs + Cardinality(PendingEvents) < capacity
    /\ \E ok \in audit_up :
          IF inet(ip_address) /\ ok
          THEN /\ request' = [request EXCEPT ![c] =
                                 [IdleRequest EXCEPT !.pc = "event_flushed",
                                                     !.op = "log_audit_event"]]
               /\ UNCHANGED response
          ELSE /\ response' = Answer("log_audit_event", 500, NoLab, <<>>)
               /\ UNCHANGED request
    /\ UNCHANGED <<reply, deployment, clerk_org_id, audit_logs, labs, raw_signals,
                   lab_states, distillation_runs, run_seq, task, session>>

\* the caller of log_audit_event commits its session: the entry is a row of
\* audit_logs from here on
log_audit_event_commit(c) ==
    /\ request[c].pc = "event_flushed"
    /\ audit_logs' = audit_logs + 1
    /\ request' = [request EXCEPT ![c] = IdleRequest]
    /\ UNCHANGED <<reply, deployment, clerk_org_id, response, labs, raw_signals,
                   lab_states, distillation_runs, run_seq, task, session>>

\* AuditLogMiddleware.dispatch after call_next has returned a 201: the audit
\* entry is written in a session of its own, then the response is returned
log_audit(c) ==
    /\ request[c].pc = "committed"
    /\ \E ok \in audit_up :
          LET d == dispatch(201, audit_logs, ok)
          IN /\ response' = Answer(request[c].op, d.status,
                                   IF request[c].op = "create_lab" THEN NoLab
                                   ELSE request[c].lab,
                                   request[c].body)
             /\ audit_logs' = d.audit_logs
    /\ request' = [request EXCEPT ![c] = IdleRequest]
    /\ UNCHANGED <<reply, deployment, clerk_org_id, labs, raw_signals, lab_states,
                   distillation_runs, run_seq, task, session>>

SelectBatch_SkipsEmptyCheck(t) ==
    IF Truthy(t.signal_ids)
    THEN [t EXCEPT !.pc = "selected", !.ids = t.signal_ids.ids, !.seen = Len(raw_signals)]
    ELSE [t EXCEPT !.pc = "selected",
                   !.ids = SeqToSet(get_unprocessed_signals(raw_signals, t.lab_id,
                                                            DefaultLimit)),
                   !.seen = Len(raw_signals)]

\* _run_distillation_async up to the call of run_distillation: the ids of the
\* batch, or the no_signals result.  seen remembers, for the properties, how
\* many rows were committed when the batch was taken; the code keeps no such
\* value.
SelectBatch(t) ==
    LET unprocessed == get_unprocessed_signals(raw_signals, t.lab_id, DefaultLimit)
    IN IF Truthy(t.signal_ids)
       THEN [t EXCEPT !.pc = "selected", !.ids = t.signal_ids.ids, !.seen = Len(raw_signals)]
       ELSE IF unprocessed = <<>>
            THEN [IdleTask EXCEPT !.pc = "no_signals"]
            ELSE [t EXCEPT !.pc = "selected", !.ids = SeqToSet(unprocessed),
                           !.seen = Len(raw_signals)]

\* distill_lab_state(lab_id, signal_ids), first invocation of a request
distill_lab_state(w, lab, sids) ==
    /\ w \in pool
    /\ lab \in labs
    /\ task[w].pc \in {"idle", "completed", "no_signals", "gave_up"}
    /\ RunBudgetLeft
    /\ task' = [task EXCEPT ![w] =
                  SelectBatch([IdleTask EXCEPT !.lab_id = lab, !.signal_ids = sids])]
    /\ UNCHANGED <<reply, deployment, api, labs, raw_signals, lab_states, distillation_runs, run_seq, session>>

ReadCurrentState_SameVersion(t) ==
    LET cur == current_state(lab_states, t.lab_id)
    IN IF cur # <<>>
       THEN [t EXCEPT !.current_state_data = cur[1].state,
                      !.input_version = cur[1].version,
                      !.new_version = cur[1].version]
       ELSE [t EXCEPT !.current_state_data = create_empty_state,
                      !.input_version = None,
                      !.new_version = 1]

\* run_distillation: read the current state
ReadCurrentState(t) ==
    LET cur == current_state(lab_states, t.lab_id)
    IN IF cur # <<>>
       THEN [t EXCEPT !.current_state_data = cur[1].state,
                      !.input_version = cur[1].version,
                      !.new_version = cur[1].version + 1]
       ELSE [t EXCEPT !.current_state_data = create_empty_state,
                      !.input_version = None,
                      !.new_version = 1]

begin_run_ReservesFirst(w) ==
    /\ task[w].pc = "selected"
    /\ LET t == ReadCurrentState(task[w])
           signals == ResolveSignals(raw_signals, t.ids)
       IN /\ run_seq' = run_seq + 1
          /\ session' = [session EXCEPT ![w].run =
                           <<[id |-> run_seq + 1,
                              lab_id |-> t.lab_id,
                              input_state_version |-> t.input_version,
                              output_state_version |-> t.new_version,
                              signals_processed |-> signals,
                              status |-> "running",
                              completed_at |-> FALSE]>>]
          /\ task' = [task EXCEPT ![w] =
                        IF signals = {}
                        THEN Raised(t, "no_signals")
                        ELSE [t EXCEPT !.pc = "reserved", !.signals = signals,
                                       !.run_id = run_seq + 1]]
    /\ UNCHANGED <<reply, deployment, api, labs, raw_signals, lab_states, distillation_runs>>

begin_run_CommitsReservation(w) ==
    /\ task[w].pc = "selected"
    /\ LET t == ReadCurrentState(task[w])
           signals == ResolveSignals(raw_signals, t.ids)
           run == [id |-> run_seq + 1,
                   lab_id |-> t.lab_id,
                   input_state_version |-> t.input_version,
                   output_state_version |-> t.new_version,
                   signals_processed |-> signals,
                   status |-> "running",
                   completed_at |-> FALSE]
       IN IF signals = {}
          THEN /\ task' = [task EXCEPT ![w] = Raised(t, "no_signals")]
               /\ UNCHANGED <<run_seq, session, distillation_runs>>
          ELSE /\ run_seq' = run_seq + 1
               /\ task' = [task EXCEPT ![w] =
                             [t EXCEPT !.pc = "reserved", !.signals = signals,
                                       !.run_id = run_seq + 1]]
               /\ session' = [session EXCEPT ![w].run = <<run>>]
               /\ distillation_runs' = Append(distillation_runs, run)
    /\ UNCHANGED <<reply, deployment, api, labs, raw_signals, lab_states>>

begin_run_NoReservation(w) ==
    /\ task[w].pc = "selected"
    /\ LET t == ReadCurrentState(task[w])
           signals == ResolveSignals(raw_signals, t.ids)
       IN IF signals = {}
          THEN /\ task' = [task EXCEPT ![w] = Raised(t, "no_signals")]
               /\ UNCHANGED run_seq
          ELSE /\ run_seq' = run_seq + 1
               /\ task' = [task EXCEPT ![w] =
                             [t EXCEPT !.pc = "reserved", !.signals = signals,
                                       !.run_id = run_seq + 1]]
    /\ UNCHANGED <<reply, deployment, api, labs, raw_signals, lab_states, distillation_runs, session>>

\* run_distillation up to the flush of the run row: read the current state,
\* resolve the signals (the rows with the ids of the batch exist since before
\* the batch was chosen and are never deleted) and reserve the run row
begin_run(w) ==
    /\ task[w].pc = "selected"
    /\ LET t == ReadCurrentState(task[w])
           signals == ResolveSignals(raw_signals, t.ids)
       IN IF signals = {}
          THEN \* raise ValueError("No signals found to process")
               /\ task' = [task EXCEPT ![w] = Raised(t, "no_signals")]
               /\ UNCHANGED <<run_seq, session>>
          ELSE /\ run_seq' = run_seq + 1
               /\ task' = [task EXCEPT ![w] =
                             [t EXCEPT !.pc = "reserved", !.signals = signals,
                                       !.run_id = run_seq + 1]]
               /\ session' = [session EXCEPT ![w].run =
                                <<[id |-> run_seq + 1,
                                   lab_id |-> t.lab_id,
                                   input_state_version |-> t.input_version,
                                   output_state_version |-> t.new_version,
                                   signals_processed |-> signals,
                                   status |-> "running",
                                   completed_at |-> FALSE]>>]
    /\ UNCHANGED <<reply, deployment, api, labs, raw_signals, lab_states, distillation_runs>>

\* run_distillation: the except branch
FailurePath_Forgets(s) == s
FailurePath(s) ==
    [s EXCEPT !.run = <<[s.run[1] EXCEPT !.status = "failed", !.completed_at = TRUE]>>]

\* `if token_count > settings.max_state_tokens: pass` ("Warn if exceeding
\* target"): what the branch does with a document over the budget
OnOverBudget_Rejects(token_count) ==
    IF token_count > max_state_tokens THEN "raise" ELSE "pass"
OnOverBudget(token_count) == "pass"

\* rows another open session has updated and not yet committed: an UPDATE of
\* one of them waits until that session commits or is closed
LockedByOthers(w) == UNION {session[o].marked : o \in Workers \ {w}}

\* run_distillation from the compression call to the assignment of status
\* completed: the call, the parse, the validation, the signal count, the token
\* count, session.add(new_state), the UPDATE of raw_signals and the status of
\* the run object.  Everything but the UPDATE is private to the attempt, so
\* the step is taken when the UPDATE can run.
call_compression(w, resp) ==
    /\ task[w].pc = "reserved"
    /\ LET t == task[w]
           targets == UpdateTargets(raw_signals, t.ids)
       IN IF resp.kind = "timeout"
          THEN /\ task' = [task EXCEPT ![w] = Raised(t, "timeout")]
               /\ session' = [session EXCEPT ![w] = FailurePath(session[w])]
          ELSE IF resp.kind = "unparseable"
          THEN /\ task' = [task EXCEPT ![w] = Raised(t, "unparseable")]
               /\ session' = [session EXCEPT ![w] = FailurePath(session[w])]
          ELSE IF ~LabStateData_model_validate(
                       [body |-> resp.body, signal_count |-> resp.signal_count])
          THEN /\ task' = [task EXCEPT ![w] = Raised(t, "invalid")]
               /\ session' = [session EXCEPT ![w] = FailurePath(session[w])]
          ELSE IF OnOverBudget(resp.tokens) = "raise"
          THEN /\ task' = [task EXCEPT ![w] = Raised(t, "over_budget")]
               /\ session' = [session EXCEPT ![w] = FailurePath(session[w])]
          ELSE /\ targets \cap LockedByOthers(w) = {}
               /\ task' = [task EXCEPT ![w] = [t EXCEPT !.pc = "marked"]]
               /\ session' = [session EXCEPT ![w] =
                                [@ EXCEPT !.marked = targets,
                                          !.run = <<[@[1] EXCEPT !.status = "completed",
                                                                 !.completed_at = TRUE]>>,
                                          !.new_state =
                                             <<[lab_id |-> t.lab_id,
                                                version |-> t.new_version,
                                                state |->
                                                   [body |-> resp.body,
                                                    signal_count |->
                                                       UpdateSignalCount(
                                                          t.current_state_data,
                                                          t.signals, resp)],
                                                token_count |-> resp.tokens]>>]]
    /\ UNCHANGED <<reply, deployment, api, labs, raw_signals, lab_states, distillation_runs, run_seq>>

\* uq_lab_states_lab_version against the committed rows
UniqueViolation_Missing(rows, lab, version) == FALSE
UniqueViolation(rows, lab, version) ==
    \E i \in 1..Len(rows) : rows[i].lab_id = lab /\ rows[i].version = version

\* an uncommitted insert of the same key by another session makes the INSERT wait
InsertBlocked_NoWait(w, lab, version) == FALSE
InsertBlocked(w, lab, version) ==
    \E o \in Workers \ {w} :
        /\ session[o].flushed
        /\ session[o].new_state[1].lab_id = lab
        /\ session[o].new_state[1].version = version

\* run_distillation: the flush that inserts the version and writes the run
\* row; when it raises, the except branch overwrites the status of the run
flush_completed(w, storage_ok) ==
    /\ task[w].pc = "marked"
    /\ LET t == task[w]
       IN /\ ~InsertBlocked(w, t.lab_id, t.new_version)
          /\ IF ~storage_ok
             THEN /\ task' = [task EXCEPT ![w] = Raised(t, "storage")]
                  /\ session' = [session EXCEPT ![w] = FailurePath(session[w])]
             ELSE IF UniqueViolation(lab_states, t.lab_id, t.new_version)
             THEN /\ task' = [task EXCEPT ![w] = Raised(t, "conflict")]
                  /\ session' = [session EXCEPT ![w] = FailurePath(session[w])]
             ELSE /\ task' = [task EXCEPT ![w] = [t EXCEPT !.pc = "flushed"]]
                  /\ session' = [session EXCEPT ![w].flushed = TRUE]
    /\ UNCHANGED <<reply, deployment, api, labs, raw_signals, lab_states, distillation_runs, run_seq>>

\* the exception as distill_lab_state catches it: a ValueError whose message
\* tells the missing signals and the lost version apart from the other causes
\* lost remembers, for the properties, the version the request's last
\* conflict was about; the code keeps no such value
Failed(t) ==
    [t EXCEPT !.pc = "failed",
              !.reason = IF t.reason \in {"no_signals", "conflict"} THEN t.reason ELSE "error",
              !.lost = IF t.reason = "conflict" THEN t.new_version ELSE t.lost]

\* the writes a session holds, applied to the committed tables
ApplySignals(w) ==
    [i \in 1..Len(raw_signals) |->
        IF i \in session[w].marked
        THEN [raw_signals[i] EXCEPT !.processed = TRUE]
        ELSE raw_signals[i]]

session_close_Commits(w) ==
    /\ task[w].pc = "raised"
    /\ raw_signals' = ApplySignals(w)
    /\ distillation_runs' = distillation_runs \o session[w].run
    /\ session' = [session EXCEPT ![w] = EmptySession]
    /\ task' = [task EXCEPT ![w] = Failed(task[w])]
    /\ UNCHANGED <<reply, deployment, api, labs, lab_states, run_seq>>

session_commit_SignalsLater(w) ==
    /\ task[w].pc = "flushed"
    /\ lab_states' = lab_states \o session[w].new_state
    /\ distillation_runs' = distillation_runs \o session[w].run
    /\ session' = [session EXCEPT ![w] = EmptySession]
    /\ task' = [task EXCEPT ![w] = [IdleTask EXCEPT !.pc = "completed"]]
    /\ UNCHANGED <<reply, deployment, api, labs, raw_signals, run_seq>>

session_commit_UpdatesInPlace(w) ==
    /\ task[w].pc = "flushed"
    /\ lab_states' = IF lab_states = <<>> THEN session[w].new_state
                     ELSE [lab_states EXCEPT ![Len(lab_states)] = session[w].new_state[1]]
    /\ raw_signals' = ApplySignals(w)
    /\ distillation_runs' = distillation_runs \o session[w].run
    /\ session' = [session EXCEPT ![w] = EmptySession]
    /\ task' = [task EXCEPT ![w] = [IdleTask EXCEPT !.pc = "completed"]]
    /\ UNCHANGED <<reply, deployment, api, labs, run_seq>>

\* _run_distillation_async: await session.commit()
session_commit(w) ==
    /\ task[w].pc = "flushed"
    /\ lab_states' = lab_states \o session[w].new_state
    /\ raw_signals' = ApplySignals(w)
    /\ distillation_runs' = distillation_runs \o session[w].run
    /\ session' = [session EXCEPT ![w] = EmptySession]
    /\ task' = [task EXCEPT ![w] = [IdleTask EXCEPT !.pc = "completed"]]
    /\ UNCHANGED <<reply, deployment, api, labs, run_seq>>

\* _run_distillation_async: the exception leaves `async with AsyncSessionLocal()`
\* and the session is closed without a commit
session_close(w) ==
    /\ task[w].pc = "raised"
    /\ session' = [session EXCEPT ![w] = EmptySession]
    /\ task' = [task EXCEPT ![w] = Failed(task[w])]
    /\ UNCHANGED <<reply, deployment, api, labs, raw_signals, lab_states, distillation_runs, run_seq>>

\* Task.retry of a task bound with max_retries: the task is sent again while
\* request.retries has not reached max_retries
CanRetry_OneMore(retries) == retries <= max_retries
CanRetry(retries) == retries < max_retries

\* countdown=2 ** self.request.retries * 10, in seconds
RetryCountdown_PowerOfProduct(retries) == 2 ^ (retries * 10)
RetryCountdown(retries) == (2 ^ retries) * 10

task_retry_KeepsCount(w) ==
    /\ task[w].pc = "failed"
    /\ IF CanRetry(task[w].retries)
       THEN /\ RunBudgetLeft
            /\ task' = [task EXCEPT ![w] =
                          SelectBatch([FreshAttempt(task[w]) EXCEPT
                                          !.countdown = RetryCountdown(task[w].retries)])]
       ELSE task' = [task EXCEPT ![w] = [IdleTask EXCEPT !.pc = "gave_up"]]
    /\ UNCHANGED <<reply, deployment, api, labs, raw_signals, lab_states, distillation_runs, run_seq, session>>

\* distill_lab_state: except Exception -> self.retry(...)
task_retry(w) ==
    /\ task[w].pc = "failed"
    /\ IF CanRetry(task[w].retries)
       THEN /\ RunBudgetLeft
            /\ task' = [task EXCEPT ![w] =
                          SelectBatch([FreshAttempt(task[w]) EXCEPT
                                          !.retries = task[w].retries + 1,
                                          !.countdown = RetryCountdown(task[w].retries)])]
       ELSE task' = [task EXCEPT ![w] = [IdleTask EXCEPT !.pc = "gave_up"]]
    /\ UNCHANGED <<reply, deployment, api, labs, raw_signals, lab_states, distillation_runs, run_seq, session>>

\* GET /{lab_id}/state: the select of the lab and one select on lab_states,
\* nothing is written; 404 when the select finds no row (GET requests are
\* not audited).  A lab is never deleted and a row of lab_states never
\* updated, so the request answers as its last statement reads.
get_current_state(org, lab) ==
    /\ LET state == current_state(lab_states, lab)
       IN response' = IF get_current_lab(org, lab) = {}
                      THEN Answer("get_current_state", 404, lab, Detail("Lab not found"))
                      ELSE IF state = <<>>
                      THEN Answer("get_current_state", 404, lab, Detail("No state found"))
                      ELSE Answer("get_current_state", 200, lab, state)
    /\ UNCHANGED <<reply, deployment, clerk_org_id, request, audit_logs, labs, raw_signals,
                   lab_states, distillation_runs, run_seq, task, session>>

RECURSIVE Descending(_)
\* the elements of a set of numbers, largest first
Descending(S) ==
    IF S = {} THEN <<>>
    ELSE LET m == CHOOSE x \in S : \A y \in S : y <= x
         IN <<m>> \o Descending(S \ {m})

RECURSIVE NewestFirst(_, _)
\* order_by(created_at.desc()): the rows S, newest first
NewestFirst(rows, S) ==
    IF S = {} THEN <<>>
    ELSE LET m == CHOOSE x \in S : \A y \in S : rows[y].created_at <= rows[x].created_at
         IN <<m>> \o NewestFirst(rows, S \ {m})

\* the values of the query parameter processed: no filter, true, false
ProcessedFilters == {BOOLEAN, {TRUE}, {FALSE}}

\* the identity map of a session that has loaded the rows `loaded` of a lab
\* (Lab.signals is lazy="selectin": the select of the lab loads them): a
\* later select of the session returns a row it has loaded as it was
\* loaded, and a row it has not loaded as the statement reads it
identity_map(loaded, rows, lab) ==
    [i \in 1..Len(rows) |->
        IF i <= Len(loaded) /\ loaded[i].lab_id = lab THEN loaded[i] ELSE rows[i]]

\* select(RawSignal).where(lab_id == lab.id) with the filter on processed,
\* on the rows committed when the statement executes
signals_query(lab, processed) ==
    {i \in 1..Len(raw_signals) :
        raw_signals[i].lab_id = lab /\ raw_signals[i].processed \in processed}

\* the dependencies of a GET route with {lab_id}, for a user of organisation
\* org: the session of the request selects the lab, 404 when it is not a lab
\* of the organisation, and loads the signals of the lab with it
load_lab(c, op, org, lab, processed, signal_id) ==
    /\ c \in clients
    /\ request[c].pc = "idle"
    /\ IF get_current_lab(org, lab) = {}
       THEN /\ response' = Answer(op, 404, lab, Detail("Lab not found"))
            /\ UNCHANGED request
       ELSE /\ request' = [request EXCEPT ![c] =
                              [IdleRequest EXCEPT
                                  !.pc = "lab_loaded", !.op = op, !.org = org, !.lab = lab,
                                  !.loaded = raw_signals, !.processed = processed,
                                  !.signal_id = signal_id]]
            /\ UNCHANGED response
    /\ UNCHANGED <<reply, deployment, clerk_org_id, audit_logs, labs, raw_signals,
                   lab_states, distillation_runs, run_seq, task, session>>

\* GET /{lab_id}/signals with the default limit and offset, up to the body
\* of the handler
list_signals(c, org, lab, processed) == load_lab(c, "list_signals", org, lab, processed, 0)

\* list_signals: select(func.count()).select_from(query.subquery())
list_signals_count(c) ==
    /\ request[c].pc = "lab_loaded"
    /\ request[c].op = "list_signals"
    /\ request' = [request EXCEPT ![c] =
                      [@ EXCEPT !.pc = "counted",
                                !.total = Cardinality(signals_query(request[c].lab,
                                                                    request[c].processed))]]
    /\ UNCHANGED <<reply, deployment, clerk_org_id, response, audit_logs, labs, raw_signals,
                   lab_states, distillation_runs, run_seq, task, session>>

\* list_signals: the select of the page, newest first, answered with the
\* total counted before it; the statement decides which rows are returned
\* and in which order, the identity map what the returned objects hold
list_signals_select(c) ==
    /\ request[c].pc = "counted"
    /\ request[c].op = "list_signals"
    /\ LET lab == request[c].lab
           signals == NewestFirst(raw_signals, signals_query(lab, request[c].processed))
           objects == identity_map(request[c].loaded, raw_signals, lab)
       IN response' = ListResponse("list_signals", lab,
                                   [k \in 1..Len(signals) |-> SignalResponse(objects, signals[k])],
                                   request[c].total)
    /\ request' = [request EXCEPT ![c] = IdleRequest]
    /\ UNCHANGED <<reply, deployment, clerk_org_id, audit_logs, labs, raw_signals,
                   lab_states, distillation_runs, run_seq, task, session>>

\* GET /{lab_id}/signals/{signal_id}, up to the body of the handler
get_signal(c, org, lab, signal_id) ==
    load_lab(c, "get_signal", org, lab, BOOLEAN, signal_id)

\* get_signal: the select by id and lab, 404 when it finds no row
get_signal_select(c) ==
    /\ request[c].pc = "lab_loaded"
    /\ request[c].op = "get_signal"
    /\ LET lab == request[c].lab
           signal_id == request[c].signal_id
           found == {i \in 1..Len(raw_signals) :
                        i = signal_id /\ raw_signals[i].lab_id = lab}
           objects == identity_map(request[c].loaded, raw_signals, lab)
       IN response' = IF found = {}
                      THEN Answer("get_signal", 404, lab, Detail("Signal not found"))
                      ELSE Answer("get_signal", 200, lab, <<SignalResponse(objects, signal_id)>>)
    /\ request' = [request EXCEPT ![c] = IdleRequest]
    /\ UNCHANGED <<reply, deployment, clerk_org_id, audit_logs, labs, raw_signals,
                   lab_states, distillation_runs, run_seq, task, session>>

\* GET /{lab_id}/state/history with the default limit and offset, up to the
\* body of the handler (rows of lab_states are never updated, so what the
\* session has loaded of them is what a later statement reads)
get_state_history(c, org, lab) ==
    load_lab(c, "get_state_history", org, lab, BOOLEAN, 0)

\* get_state_history: select(func.count()).where(LabState.lab_id == lab.id)
get_state_history_count(c) ==
    /\ request[c].pc = "lab_loaded"
    /\ request[c].op = "get_state_history"
    /\ request' = [request EXCEPT ![c] =
                      [@ EXCEPT !.pc = "counted",
                                !.total = Cardinality({i \in 1..Len(lab_states) :
                                                          lab_states[i].lab_id = request[c].lab})]]
    /\ UNCHANGED <<reply, deployment, clerk_org_id, response, audit_logs, labs, raw_signals,
                   lab_states, distillation_runs, run_seq, task, session>>

\* get_state_history: the select of the page, the versions of the lab newest
\* first, answered with the total counted before it
get_state_history_select(c) ==
    /\ request[c].pc = "counted"
    /\ request[c].op = "get_state_history"
    /\ LET lab == request[c].lab
           versions == Descending(LabVersions(lab_states, lab))
           row(v) == CHOOSE i \in 1..Len(lab_states) :
                        lab_states[i].lab_id = lab /\ lab_states[i].version = v
       IN response' = ListResponse("get_state_history", lab,
                                   [k \in 1..Len(versions) |-> lab_states[row(versions[k])]],
                                   request[c].total)
    /\ request' = [request EXCEPT ![c] = IdleRequest]
    /\ UNCHANGED <<reply, deployment, clerk_org_id, audit_logs, labs, raw_signals,
                   lab_states, distillation_runs, run_seq, task, session>>

\* GET /{lab_id}/state/versions/{version}
get_state_version(org, lab, version) ==
    /\ LET found == {i \in 1..Len(lab_states) :
                        lab_states[i].lab_id = lab /\ lab_states[i].version = version}
       IN response' = IF get_current_lab(org, lab) = {}
                      THEN Answer("get_state_version", 404, lab, Detail("Lab not found"))
                      ELSE IF found = {}
                      THEN Answer("get_state_version", 404, lab, Detail("State version not found"))
                      ELSE Answer("get_state_version", 200, lab,
                                  <<lab_states[CHOOSE i \in found : TRUE]>>)
    /\ UNCHANGED <<reply, deployment, clerk_org_id, request, audit_logs, labs, raw_signals,
                   lab_states, distillation_runs, run_seq, task, session>>

\* LabResponse.model_validate(lab)
LabResponse(lab, org) == [id |-> lab, clerk_org_id |-> org]

\* create_lab: select(Lab).where(Lab.clerk_org_id == user.org_id) sees the
\* committed rows
existing_lab(org) == {l \in labs : clerk_org_id[l] = org}

\* labs.clerk_org_id is unique: an INSERT waits for an uncommitted insert of
\* the same organisation and fails when a committed row has it
LabInsertBlocked(c, org) ==
    \E o \in Clients \ {c} : request[o].pc = "flushed" /\ request[o].org = org

UniqueOrgViolation_Missing(org) == FALSE
UniqueOrgViolation(org) == \E l \in labs : clerk_org_id[l] = org

\* POST /labs up to the check: 409 when the organisation has a lab (the
\* middleware writes no audit entry for a status that is not 2xx)
create_lab_check(c, org) ==
    /\ c \in clients
    /\ request[c].pc = "idle"
    /\ IF existing_lab(org) # {}
       THEN /\ response' = Answer("create_lab", dispatch(409, audit_logs, TRUE).status, NoLab,
                                  Detail("Lab already exists for this organization"))
            /\ UNCHANGED request
       ELSE /\ request' = [request EXCEPT ![c] =
                              [IdleRequest EXCEPT !.pc = "checked", !.op = "create_lab",
                                                  !.org = org]]
            /\ UNCHANGED response
    /\ UNCHANGED <<reply, deployment, clerk_org_id, audit_logs, labs, raw_signals, lab_states,
                   distillation_runs, run_seq, task, session>>

\* POST /labs: session.add(lab) and session.flush(); the IntegrityError of
\* the flush is not handled, the session is rolled back and the answer is 500
create_lab_flush(c) ==
    /\ request[c].pc = "checked"
    /\ ~LabInsertBlocked(c, request[c].org)
    /\ IF UniqueOrgViolation(request[c].org)
       THEN /\ request' = [request EXCEPT ![c] = IdleRequest]
            /\ response' = Answer("create_lab", 500, NoLab, <<>>)
       ELSE /\ \E lab \in Labs \ (labs \cup {request[o].lab : o \in
                                      {x \in Clients : request[x].pc = "flushed"}}) :
                  request' = [request EXCEPT ![c] =
                                [@ EXCEPT !.pc = "flushed", !.lab = lab,
                                          !.body = <<LabResponse(lab, request[c].org)>>]]
            /\ UNCHANGED response
    /\ UNCHANGED <<reply, deployment, clerk_org_id, audit_logs, labs, raw_signals, lab_states,
                   distillation_runs, run_seq, task, session>>

\* get_db_with_tenant after the handler of create_lab has returned the lab:
\* session.commit(); the lab is visible to every statement from here on
create_lab_commit(c) ==
    /\ request[c].pc = "flushed"
    /\ labs' = labs \cup {request[c].lab}
    /\ clerk_org_id' = [l \in labs \cup {request[c].lab} |->
                          IF l = request[c].lab THEN request[c].org ELSE clerk_org_id[l]]
    /\ request' = [request EXCEPT ![c] = [@ EXCEPT !.pc = "committed"]]
    /\ UNCHANGED <<reply, deployment, response, audit_logs, raw_signals, lab_states,
                   distillation_runs, run_seq, task, session>>

\* the rows of n create_signal requests, each for the next lab of the
\* sequence labs_of, that have run one after the other
Arrived(labs_of) ==
    [i \in 1..Len(labs_of) |-> RawSignal(labs_of[i], ExperimentSignal, i)]

\* the state after the accepted create_signal requests that have committed
\* rows, and no other request: the rows, one audit entry for each and the
\* response to the request that committed last
Submitted(rows) ==
    /\ request = [c \in Clients |-> IdleRequest]
    /\ raw_signals = rows
    /\ audit_logs = Len(rows)
    /\ response = Answer("create_signal", 201, rows[Len(rows)].lab_id,
                          <<SignalResponse(rows, Len(rows))>>)

\* the signal_ids a caller may pass: none, one existing signal, all existing
\* signals, or an id that resolves to no row
RequestIds ==
    {NoRequest} \cup
    {[none |-> FALSE, ids |-> S] : S \in {{i} : i \in SignalIdsOf(raw_signals)}
                                          \cup {SignalIdsOf(raw_signals)} \cup {{Ghost}}}

\* the triggers and the steps of the workers
NextWorkers ==
    \/ \E w \in Workers, lab \in Labs, sids \in RequestIds : distill_lab_state(w, lab, sids)
    \/ \E w \in Workers : begin_run(w)
    \/ \E w \in Workers, resp \in Responses : call_compression(w, resp)
    \/ \E w \in Workers, ok \in BOOLEAN : flush_completed(w, ok)
    \/ \E w \in Workers : session_commit(w)
    \/ \E w \in Workers : session_close(w)
    \/ \E w \in Workers : task_retry(w)

\* clients that submit signals, and the workers
Next ==
    \/ \E c \in Clients, lab \in labs :
          create_signal(c, clerk_org_id[lab], lab, ExperimentSignal)
    \/ \E c \in Clients : create_signal_commit(c)
    \/ \E c \in Clients : log_audit(c)
    \/ NextWorkers

Spec == Init /\ [][Next]_vars

\* two labs of two organisations, one worker
InitTenants ==
    /\ labs = Labs
    /\ clerk_org_id = OrgOfLab
    /\ pool = {"w1"}
    /\ sizes = {max_state_tokens}
    /\ capacity = MaxSignals
    /\ budget = MaxRuns
    /\ audit_up = {TRUE}
    /\ clients = {"c1"}
    /\ reply = NoReply
    /\ InitData

SpecTenants == InitTenants /\ [][Next]_vars

\* two labs of two organisations with one signal each, one worker, and
\* clients that read the current state
InitReads ==
    /\ labs = Labs
    /\ clerk_org_id = OrgOfLab
    /\ pool = {"w1"}
    /\ sizes = {max_state_tokens}
    /\ capacity = 2
    /\ budget = MaxRuns
    /\ audit_up = {TRUE}
    /\ clients = {}
    /\ reply = NoReply
    /\ Submitted(Arrived(<<"labA", "labB">>))
    /\ lab_states = <<>>
    /\ distillation_runs = <<>>
    /\ run_seq = 0
    /\ task = [w \in Workers |-> IdleTask]
    /\ session = [w \in Workers |-> EmptySession]

NextReads ==
    \/ NextWorkers
    \/ \E lab \in labs : get_current_state(clerk_org_id[lab], lab)

SpecReads == InitReads /\ [][NextReads]_vars

\* one lab whose clients have submitted DefaultLimit signals that no
\* distillation has taken yet, and still submit; the last two requests have
\* committed in the reverse order of the starts of their transactions; one
\* worker
InitBacklog ==
    /\ labs = {"labA"}
    /\ clerk_org_id = [l \in {"labA"} |-> OrgOfLab[l]]
    /\ pool = {"w1"}
    /\ sizes = {max_state_tokens}
    /\ capacity = DefaultLimit + 1
    /\ budget = MaxRuns
    /\ audit_up = {TRUE}
    /\ clients = {"c1"}
    /\ reply = NoReply
    /\ Submitted([i \in 1..DefaultLimit |->
                     RawSignal("labA", ExperimentSignal,
                               IF i = DefaultLimit - 1 THEN DefaultLimit
                               ELSE IF i = DefaultLimit THEN DefaultLimit - 1
                               ELSE i)])
    /\ lab_states = <<>>
    /\ distillation_runs = <<>>
    /\ run_seq = 0
    /\ task = [w \in Workers |-> IdleTask]
    /\ session = [w \in Workers |-> EmptySession]

SpecBacklog == InitBacklog /\ [][Next]_vars

\* one lab with one signal fewer than the default limit, two clients whose
\* requests overlap, one worker
InitIngest ==
    /\ labs = {"labA"}
    /\ clerk_org_id = [l \in {"labA"} |-> OrgOfLab[l]]
    /\ pool = {"w1"}
    /\ sizes = {max_state_tokens}
    /\ capacity = DefaultLimit + MaxSignals - 1
    /\ budget = MaxRuns
    /\ audit_up = {TRUE}
    /\ clients = Clients
    /\ reply = NoReply
    /\ Submitted(Arrived([i \in 1..(DefaultLimit - 1) |-> "labA"]))
    /\ lab_states = <<>>
    /\ distillation_runs = <<>>
    /\ run_seq = 0
    /\ task = [w \in Workers |-> IdleTask]
    /\ session = [w \in Workers |-> EmptySession]

SpecIngest == InitIngest /\ [][Next]_vars

\* one lab with two signals, no client that submits, two concurrent workers
\* and run ids enough for a request to be re-invoked after two attempts have
\* raced for a version
InitRace ==
    /\ labs = {"labA"}
    /\ clerk_org_id = [l \in {"labA"} |-> OrgOfLab[l]]
    /\ pool = Workers
    /\ sizes = {max_state_tokens}
    /\ capacity = 2
    /\ budget = MaxRuns + 1
    /\ audit_up = {TRUE}
    /\ clients = {}
    /\ reply = NoReply
    /\ Submitted(Arrived(<<"labA", "labA">>))
    /\ lab_states = <<>>
    /\ distillation_runs = <<>>
    /\ run_seq = 0
    /\ task = [w \in Workers |-> IdleTask]
    /\ session = [w \in Workers |-> EmptySession]

SpecRace == InitRace /\ [][NextWorkers]_vars

\* one lab, one worker, documents that measure within and over the budget
InitBudget ==
    /\ labs = {"labA"}
    /\ clerk_org_id = [l \in {"labA"} |-> OrgOfLab[l]]
    /\ pool = {"w1"}
    /\ sizes = {max_state_tokens, max_state_tokens + 1}
    /\ capacity = MaxSignals
    /\ budget = MaxRuns
    /\ audit_up = {TRUE}
    /\ clients = {"c1"}
    /\ reply = NoReply
    /\ InitData

SpecBudget == InitBudget /\ [][Next]_vars

\* the API requests that write: two clients of two organisations, no lab at
\* the start, an audit_logs insert that can fail
InitApiOnly ==
    /\ labs = {}
    /\ clerk_org_id = [l \in {} |-> "orgA"]
    /\ pool = {}
    /\ sizes = {max_state_tokens}
    /\ capacity = MaxSignals
    /\ budget = MaxRuns
    /\ audit_up = BOOLEAN
    /\ clients = Clients
    /\ reply = NoReply
    /\ InitData

NextApi ==
    \/ \E c \in Clients, org \in Orgs : create_lab_check(c, org)
    \/ \E c \in Clients : create_lab_flush(c)
    \/ \E c \in Clients : create_lab_commit(c)
    \/ \E c \in Clients, lab \in labs :
          create_signal(c, clerk_org_id[lab], lab, ExperimentSignal)
    \/ \E c \in Clients : create_signal_commit(c)
    \/ \E c \in Clients : log_audit(c)
    \/ \E c \in Clients, ip_address \in Addresses : log_audit_event(c, ip_address)
    \/ \E c \in Clients : log_audit_event_commit(c)

SpecApi == InitApiOnly /\ [][NextApi]_vars

\* the signal and state routes: two labs of two organisations with one
\* signal each; a completed run has folded the signal of labB into version 1
\* of its state, and the worker's next attempt has flushed version 1 of labA
\* and is about to commit; users of both organisations call every route
\* with every lab and submit one more signal
InitRoutes ==
    /\ labs = Labs
    /\ clerk_org_id = OrgOfLab
    /\ pool = {"w1"}
    /\ sizes = {max_state_tokens}
    /\ capacity = 3
    /\ budget = 2
    /\ audit_up = {TRUE}
    /\ clients = {"c1"}
    /\ reply = NoReply
    /\ request = [c \in Clients |-> IdleRequest]
    /\ response = Answer("create_signal", 201, "labB",
                          <<SignalResponse(Arrived(<<"labA", "labB">>), 2)>>)
    /\ audit_logs = 2
    /\ raw_signals = <<RawSignal("labA", ExperimentSignal, 1),
                       [RawSignal("labB", ExperimentSignal, 2) EXCEPT !.processed = TRUE]>>
    /\ lab_states = <<[lab_id |-> "labB", version |-> 1,
                       state |-> [body |-> "ok", signal_count |-> 1],
                       token_count |-> max_state_tokens]>>
    /\ distillation_runs = <<[id |-> 1, lab_id |-> "labB",
                              input_state_version |-> None, output_state_version |-> 1,
                              signals_processed |-> {2}, status |-> "completed",
                              completed_at |-> TRUE]>>
    /\ run_seq = 2
    /\ task = [w \in Workers |->
                 IF w = "w1"
                 THEN [IdleTask EXCEPT !.pc = "flushed", !.lab_id = "labA", !.ids = {1},
                                       !.signals = {1}, !.new_version = 1, !.run_id = 2,
                                       !.seen = 2]
                 ELSE IdleTask]
    /\ session = [w \in Workers |->
                    IF w = "w1"
                    THEN [run |-> <<[id |-> 2, lab_id |-> "labA",
                                    input_state_version |-> None,
                                    output_state_version |-> 1,
                                    signals_processed |-> {1}, status |-> "completed",
                                    completed_at |-> TRUE]>>,
                          new_state |-> <<[lab_id |-> "labA", version |-> 1,
                                          state |-> [body |-> "ok", signal_count |-> 1],
                                          token_count |-> max_state_tokens]>>,
                          marked |-> {1}, flushed |-> TRUE]
                    ELSE EmptySession]

NextRoutes ==
    \/ \E c \in Clients, org \in Orgs, lab \in Labs, signal_in \in SignalInputs :
          create_signal(c, org, lab, signal_in)
    \/ \E c \in Clients : create_signal_commit(c)
    \/ \E c \in Clients : log_audit(c)
    \/ \E c \in Clients, org \in Orgs, lab \in Labs, processed \in ProcessedFilters :
          list_signals(c, org, lab, processed)
    \/ \E c \in Clients : list_signals_count(c)
    \/ \E c \in Clients : list_signals_select(c)
    \/ \E c \in Clients, org \in Orgs, lab \in Labs, signal_id \in 1..(Len(raw_signals) + 1) :
          get_signal(c, org, lab, signal_id)
    \/ \E c \in Clients : get_signal_select(c)
    \/ \E org \in Orgs, lab \in Labs : get_current_state(org, lab)
    \/ \E c \in Clients, org \in Orgs, lab \in Labs : get_state_history(c, org, lab)
    \/ \E c \in Clients : get_state_history_count(c)
    \/ \E c \in Clients : get_state_history_select(c)
    \/ \E w \in Workers : session_commit(w)
    \/ \E org \in Orgs, lab \in Labs, version \in 1..2 : get_state_version(org, lab, version)

SpecRoutes == InitRoutes /\ [][NextRoutes]_vars

\* reads that overlap with commits: one lab with two signals, two clients
\* that list and get the signals of the lab and submit one more, one
\* worker with one run id
InitListing ==
    /\ labs = {"labA"}
    /\ clerk_org_id = [l \in {"labA"} |-> OrgOfLab[l]]
    /\ pool = {"w1"}
    /\ sizes = {max_state_tokens}
    /\ capacity = 3
    /\ budget = 1
    /\ audit_up = {TRUE}
    /\ clients = Clients
    /\ reply = NoReply
    /\ Submitted(Arrived(<<"labA", "labA">>))
    /\ lab_states = <<>>
    /\ distillation_runs = <<>>
    /\ run_seq = 0
    /\ task = [w \in Workers |-> IdleTask]
    /\ session = [w \in Workers |-> EmptySession]

NextListing ==
    \/ \E c \in Clients, lab \in labs :
          create_signal(c, clerk_org_id[lab], lab, ExperimentSignal)
    \/ \E c \in Clients : create_signal_commit(c)
    \/ \E c \in Clients : log_audit(c)
    \/ \E c \in Clients, lab \in labs, processed \in ProcessedFilters :
          list_signals(c, clerk_org_id[lab], lab, processed)
    \/ \E c \in Clients : list_signals_count(c)
    \/ \E c \in Clients : list_signals_select(c)
    \/ \E c \in Clients, lab \in labs, signal_id \in SignalIdsOf(raw_signals) :
          get_signal(c, clerk_org_id[lab], lab, signal_id)
    \/ \E c \in Clients : get_signal_select(c)
    \/ \E c \in Clients, lab \in labs : get_state_history(c, clerk_org_id[lab], lab)
    \/ \E c \in Clients : get_state_history_count(c)
    \/ \E c \in Clients : get_state_history_select(c)
    \/ NextWorkers

SpecListing == InitListing /\ [][NextListing]_vars

\* one request from its first invocation to its end: a lab with one signal,
\* one worker that has entered distill_lab_state for the lab, run ids for
\* every invocation of the request; clients still submit signals
InitChain ==
    /\ labs = {"labA"}
    /\ clerk_org_id = [l \in {"labA"} |-> OrgOfLab[l]]
    /\ pool = {"w1"}
    /\ sizes = {max_state_tokens}
    /\ capacity = MaxSignals
    /\ budget = max_retries + 1
    /\ audit_up = {TRUE}
    /\ clients = {"c1"}
    /\ reply = NoReply
    /\ request = [c \in Clients |-> IdleRequest]
    /\ response = Answer("create_signal", 201, "labA",
                          <<[id |-> 1, lab_id |-> "labA", signal_type |-> "experiment",
                             content |-> {"experiment"}, processed |-> FALSE,
                             created_at |-> 1]>>)
    /\ audit_logs = 1
    /\ raw_signals = <<RawSignal("labA", ExperimentSignal, 1)>>
    /\ lab_states = <<>>
    /\ distillation_runs = <<>>
    /\ run_seq = 0
    /\ session = [w \in Workers |-> EmptySession]
    /\ \E sids \in {NoRequest, [none |-> FALSE, ids |-> {1}], [none |-> FALSE, ids |-> {Ghost}]} :
          task = [w \in Workers |->
                    IF w = "w1"
                    THEN [IdleTask EXCEPT !.pc = "selected", !.signal_ids = sids,
                                          !.ids = IF sids.none THEN {1} ELSE sids.ids,
                                          !.seen = 1]
                    ELSE IdleTask]

NextChain ==
    \/ \E c \in Clients, lab \in labs :
          create_signal(c, clerk_org_id[lab], lab, ExperimentSignal)
    \/ \E c \in Clients : create_signal_commit(c)
    \/ \E c \in Clients : log_audit(c)
    \/ \E w \in Workers : begin_run(w)
    \/ \E w \in Workers, resp \in Responses : call_compression(w, resp)
    \/ \E w \in Workers, ok \in BOOLEAN : flush_completed(w, ok)
    \/ \E w \in Workers : session_commit(w)
    \/ \E w \in Workers : session_close(w)
    \/ \E w \in Workers : task_retry(w)

\* a worker runs the body of the task to its end, the compression call
\* returns or times out, and the broker delivers a retry after its countdown
WorkerFairness ==
    \A w \in Workers :
        /\ WF_vars(begin_run(w))
        /\ WF_vars(\E resp \in Responses : call_compression(w, resp))
        /\ WF_vars(\E ok \in BOOLEAN : flush_completed(w, ok))
        /\ WF_vars(session_commit(w))
        /\ WF_vars(session_close(w))
        /\ WF_vars(task_retry(w))

SpecChain == InitChain /\ [][NextChain]_vars /\ WorkerFairness

\* the compression answers and flush outcomes of an attempt: the attempts with
\* the first two run ids may fail in every way, the later attempts succeed
ServeResponses ==
    IF run_seq <= 2 THEN Responses
    ELSE {resp \in Responses :
             /\ resp.kind = "json"
             /\ LabStateData_model_validate(
                    [body |-> resp.body, signal_count |-> resp.signal_count])}
ServeFlushes == IF run_seq <= 2 THEN BOOLEAN ELSE {TRUE}

\* a lab with a backlog of DefaultLimit signals and two clients whose
\* requests overlap and still submit; one worker; triggers with
\* signal_ids = none only; run ids for two failed attempts and for one run
\* per signal submitted after the backlog
InitServe ==
    /\ labs = {"labA"}
    /\ clerk_org_id = [l \in {"labA"} |-> OrgOfLab[l]]
    /\ pool = {"w1"}
    /\ sizes = {max_state_tokens}
    /\ capacity = DefaultLimit + MaxSignals
    /\ budget = MaxSignals + 3
    /\ audit_up = {TRUE}
    /\ clients = Clients
    /\ reply = NoReply
    /\ Submitted(Arrived([i \in 1..DefaultLimit |-> "labA"]))
    /\ lab_states = <<>>
    /\ distillation_runs = <<>>
    /\ run_seq = 0
    /\ task = [w \in Workers |-> IdleTask]
    /\ session = [w \in Workers |-> EmptySession]

NextServe ==
    \/ \E c \in Clients, lab \in labs :
          create_signal(c, clerk_org_id[lab], lab, ExperimentSignal)
    \/ \E c \in Clients : create_signal_commit(c)
    \/ \E c \in Clients : log_audit(c)
    \/ \E w \in Workers, lab \in Labs : distill_lab_state(w, lab, NoRequest)
    \/ \E w \in Workers : begin_run(w)
    \/ \E w \in Workers, resp \in ServeResponses : call_compression(w, resp)
    \/ \E w \in Workers, ok \in ServeFlushes : flush_completed(w, ok)
    \/ \E w \in Workers : session_commit(w)
    \/ \E w \in Workers : session_close(w)
    \/ \E w \in Workers : task_retry(w)

\* the trigger with signal_ids = none is sent again and again, and the worker
\* runs what it has taken
ServeFairness ==
    \A w \in Workers :
        /\ WF_vars(\E lab \in Labs : distill_lab_state(w, lab, NoRequest))
        /\ WF_vars(begin_run(w))
        /\ WF_vars(\E resp \in ServeResponses : call_compression(w, resp))
        /\ WF_vars(\E ok \in ServeFlushes : flush_completed(w, ok))
        /\ WF_vars(session_commit(w))
        /\ WF_vars(session_close(w))
        /\ WF_vars(task_retry(w))

SpecServe == InitServe /\ [][NextServe]_vars /\ ServeFairness

\* the capability answers a compression call with a document in one form
compression_reply(doc, form) ==
    /\ reply.pc \in {"idle", "parsed"}
    /\ reply' = [pc |-> "received", form |-> form, document |-> doc,
                 content |-> Wrap(doc, form), candidate |-> <<>>]
    /\ UNCHANGED <<deployment, api, labs, raw_signals, lab_states, distillation_runs, run_seq,
                   task, session>>

\* run_distillation parses the content of the response
parse_reply ==
    /\ reply.pc = "received"
    /\ reply' = [reply EXCEPT !.pc = "parsed", !.candidate = parse_response(reply.content)]
    /\ UNCHANGED <<deployment, api, labs, raw_signals, lab_states, distillation_runs, run_seq,
                   task, session>>

\* the parsing of compression responses alone
InitParse ==
    /\ labs = {}
    /\ clerk_org_id = [l \in {} |-> "orgA"]
    /\ pool = {}
    /\ sizes = {max_state_tokens}
    /\ capacity = 0
    /\ budget = 0
    /\ audit_up = {TRUE}
    /\ clients = {"c1"}
    /\ reply = NoReply
    /\ InitData

NextParse ==
    \/ \E doc \in Documents, form \in Forms : compression_reply(doc, form)
    \/ parse_reply

SpecParse == InitParse /\ [][NextParse]_vars

TypeOK ==
    /\ run_seq \in 0..budget
    /\ Len(raw_signals) <= capacity
    /\ \A w \in Workers :
          task[w].pc \in {"idle", "selected", "reserved",
                          "marked", "flushed", "completed", "no_signals", "raised",
                          "failed", "gave_up"}

\* ------------------------------------------------------------ properties

RowsOf(rows, lab) == {i \in 1..Len(rows) : rows[i].lab_id = lab}

VersionRows(lab, v) == {i \in RowsOf(lab_states, lab) : lab_states[i].version = v}

CompletedRuns(lab, v) ==
    {i \in RowsOf(distillation_runs, lab) :
        /\ distillation_runs[i].status = "completed"
        /\ distillation_runs[i].output_state_version = v}

PersistedRun(id) == {i \in 1..Len(distillation_runs) : distillation_runs[i].id = id}

\* C1: for every lab the committed version numbers are exactly 1..n, n being
\* the number of committed lab_states rows of the lab: no gap, no duplicate.
C1_VersionsContiguous ==
    \A lab \in Labs :
        LabVersions(lab_states, lab) = 1..Cardinality(RowsOf(lab_states, lab))

C1_Witness ==
    \E lab \in Labs : Cardinality(RowsOf(lab_states, lab)) >= 2

\* C2: of the attempts that computed the same next version of a lab, exactly
\* one commits it: two sessions never both hold a flushed insert of that
\* version, a version has at most one completed run, and when an attempt's
\* commit step has failed on the version, that version is committed exactly
\* once, by another attempt, and the loser has committed nothing.
C2_ExactlyOneCommits ==
    /\ \A a \in Workers, b \in Workers :
          (a # b /\ task[a].pc = "flushed" /\ task[b].pc = "flushed"
                 /\ task[a].lab_id = task[b].lab_id)
             => task[a].new_version # task[b].new_version
    /\ \A lab \in Labs, v \in 1..MaxRuns : Cardinality(CompletedRuns(lab, v)) <= 1
    /\ \A a \in Workers :
          (task[a].pc = "failed" /\ task[a].reason = "conflict")
             => /\ Cardinality(VersionRows(task[a].lab_id, task[a].new_version)) = 1
                /\ Cardinality(CompletedRuns(task[a].lab_id, task[a].new_version)) = 1
                /\ \A i \in PersistedRun(task[a].run_id) :
                      distillation_runs[i].status # "completed"

C2_Witness ==
    \E a \in Workers :
        /\ task[a].pc = "failed"
        /\ task[a].reason = "conflict"
        /\ VersionRows(task[a].lab_id, task[a].new_version) # {}

\* C3 (as claimed): once the attempt that lost the race for a version has
\* ended, a persisted distillation_runs row of that attempt exists with
\* status failed.
C3_LoserRecordedFailed ==
    \A a \in Workers :
        (task[a].pc = "failed" /\ task[a].reason = "conflict")
           => \E i \in PersistedRun(task[a].run_id) :
                 distillation_runs[i].status = "failed"

\* C4: a committed signal is processed exactly when its id is in the signal
\* set of some committed run with status completed; and the rows a session
\* has marked are among the signals its run resolved.
C4_ProcessedIffInCompletedRun ==
    /\ \A s \in 1..Len(raw_signals) :
          raw_signals[s].processed <=>
             \E i \in 1..Len(distillation_runs) :
                /\ distillation_runs[i].status = "completed"
                /\ s \in distillation_runs[i].signals_processed
    /\ \A w \in Workers :
          session[w].marked # {} =>
             session[w].marked \subseteq session[w].run[1].signals_processed

C4_Witness ==
    /\ \E s \in 1..Len(raw_signals) : raw_signals[s].processed
    /\ \E s \in 1..Len(raw_signals) : ~raw_signals[s].processed
    /\ \E w \in Workers : task[w].pc = "failed" /\ task[w].run_id # 0

\* C5: the lab_states rows and the processed flag of every existing signal
\* change only in the step in which an attempt's session commits after its
\* version was flushed; no step of an attempt that fails changes them.
C5_FailedAttemptChangesNothing ==
    [][ (\/ lab_states' # lab_states
         \/ \E s \in 1..Len(raw_signals) : raw_signals'[s].processed # raw_signals[s].processed)
        => \E w \in Workers : task[w].pc = "flushed" /\ task'[w].pc = "completed" ]_vars

C5_Witness ==
    \E w \in Workers :
        /\ task[w].pc = "failed"
        /\ task[w].reason = "conflict"
        /\ task[w].retries > 0
        /\ task[w].run_id # 0
        /\ \E s \in task[w].ids : ~raw_signals[s].processed
        /\ Len(lab_states) = 1

\* C6 (as claimed): every attempt that reserved a run row leaves a persisted
\* row of its own: when no session has a run row open, the number of
\* persisted distillation_runs rows equals the number of reservations, and a
\* failed attempt's row is there with status failed and completed_at set.
C6_EveryReservationPersisted ==
    /\ (\A w \in Workers : session[w].run = <<>>) => Len(distillation_runs) = run_seq
    /\ \A w \in Workers :
          (task[w].pc = "failed" /\ task[w].run_id # 0)
             => \E i \in PersistedRun(task[w].run_id) :
                   /\ distillation_runs[i].status = "failed"
                   /\ distillation_runs[i].completed_at

\* C7: when run_distillation raises on a response that cannot be parsed or
\* fails validation, the run row of the attempt has status failed and
\* completed_at set and the session holds no new version; and every
\* committed lab_states row holds a document that meets the schema.
C7_InvalidCandidateNeverCommitted ==
    /\ \A w \in Workers :
          (task[w].pc = "raised" /\ task[w].reason \in {"unparseable", "invalid"})
             => /\ session[w].run # <<>>
                /\ session[w].run[1].status = "failed"
                /\ session[w].run[1].completed_at
                /\ session[w].new_state = <<>>
                /\ session[w].marked = {}
    /\ \A i \in 1..Len(lab_states) :
          lab_states[i].state.body = "ok" /\ lab_states[i].state.signal_count >= 0

C7_Witness ==
    \E w \in Workers : task[w].pc = "raised" /\ task[w].reason = "invalid"

\* C8: an attempt whose version insert was flushed targets exactly the
\* current maximum version + 1 and compressed the snapshot of that maximum
\* version (the empty state when the lab has no version); and the completed
\* run of every committed version v records input version v-1 (none for 1).
C8_CommitsOnlyOnCurrentState ==
    /\ \A w \in Workers :
          task[w].pc = "flushed" =>
             LET cur == current_state(lab_states, task[w].lab_id)
             IN IF cur = <<>>
                THEN /\ task[w].new_version = 1
                     /\ task[w].input_version = None
                     /\ task[w].current_state_data = create_empty_state
                ELSE /\ task[w].new_version = cur[1].version + 1
                     /\ task[w].input_version = cur[1].version
                     /\ task[w].current_state_data = cur[1].state
    /\ \A i \in 1..Len(lab_states) :
          \E r \in CompletedRuns(lab_states[i].lab_id, lab_states[i].version) :
             distillation_runs[r].input_state_version =
                (IF lab_states[i].version = 1 THEN None ELSE lab_states[i].version - 1)

C8_Witness ==
    \E w \in Workers : task[w].pc = "flushed" /\ task[w].new_version = 2

SignalCountOf(lab, v) ==
    IF v = 0 THEN 0
    ELSE LET i == CHOOSE j \in VersionRows(lab, v) : TRUE
         IN lab_states[i].state.signal_count

\* C9: signal_count of every committed version equals signal_count of the
\* version before it (0 when there is none) plus the number of signals in
\* the signal set of the completed run that produced it.
C9_SignalCountAdds ==
    \A i \in 1..Len(lab_states) :
        LET lab == lab_states[i].lab_id
            v == lab_states[i].version
        IN /\ v > 1 => VersionRows(lab, v - 1) # {}
           /\ \E r \in CompletedRuns(lab, v) :
                 lab_states[i].state.signal_count =
                    SignalCountOf(lab, v - 1)
                       + Cardinality(distillation_runs[r].signals_processed)

C9_Witness ==
    \E i \in 1..Len(lab_states) :
        lab_states[i].version = 2 /\ lab_states[i].state.signal_count >= 2

\* C10 (as claimed): each signal id is in the signal set of at most one
\* completed run.
C10_FoldedAtMostOnce ==
    \A s \in 1..Len(raw_signals) :
        Cardinality({i \in 1..Len(distillation_runs) :
                        /\ distillation_runs[i].status = "completed"
                        /\ s \in distillation_runs[i].signals_processed}) <= 1

\* C11: run_distillation raises the no-signals error exactly when the ids it
\* was given resolve to no raw_signals row, and it does so straight from the
\* start of the attempt (before the compression call), leaving the session
\* without any write, no run id handed out and every table as it was.
C11_NoSignalsBeforeAnyWrite ==
    [][ \A w \in Workers :
          /\ (task[w].pc # "raised" /\ task'[w].pc = "raised"
                 /\ task'[w].reason = "no_signals")
               => /\ task[w].pc = "selected"
                  /\ ResolveSignals(raw_signals, task[w].ids) = {}
                  /\ session'[w] = EmptySession
                  /\ UNCHANGED <<raw_signals, lab_states, distillation_runs, run_seq, session>>
          /\ (task[w].pc = "selected" /\ task'[w] # task[w]
                 /\ ResolveSignals(raw_signals, task[w].ids) = {})
               => (task'[w].pc = "raised" /\ task'[w].reason = "no_signals") ]_vars

C11_Witness ==
    \E w \in Workers :
        /\ task[w].pc = "raised"
        /\ task[w].reason = "no_signals"
        /\ session[w] = EmptySession
        /\ Len(raw_signals) > 0
        /\ run_seq > 0

Unprocessed(lab) == {i \in RowsOf(raw_signals, lab) : ~raw_signals[i].processed}

\* C12 (as claimed): a trigger with signal_ids = none for a lab that has no
\* unprocessed signal fails with the no-signals error and leaves the version
\* log as it was.
C12_RetriggerFails ==
    [][ \A w \in Workers, lab \in Labs :
          (distill_lab_state(w, lab, NoRequest) /\ Unprocessed(lab) = {})
             => /\ task'[w].pc = "raised"
                /\ task'[w].reason = "no_signals"
                /\ lab_states' = lab_states ]_vars

\* C12 (amended): a trigger with signal_ids = none for a lab that has no
\* unprocessed signal returns the no_signals result - no error is raised and
\* nothing is retried: the only next step of the worker is a new trigger -
\* and it leaves the version log, and every other table, as it was.
C12_RetriggerReturnsNoSignals ==
    [][ \A w \in Workers :
          /\ \A lab \in Labs :
                (distill_lab_state(w, lab, NoRequest) /\ Unprocessed(lab) = {})
                   => /\ task'[w].pc = "no_signals"
                      /\ UNCHANGED <<raw_signals, lab_states, distillation_runs,
                                     run_seq, session>>
          /\ (task[w].pc = "no_signals" /\ task'[w] # task[w])
                => \E lab \in Labs, sids \in RequestIds : distill_lab_state(w, lab, sids) ]_vars

C12_Witness ==
    \E w \in Workers :
        /\ task[w].pc = "no_signals"
        /\ lab_states # <<>>
        /\ Len(raw_signals) > 0
        /\ \A s \in 1..Len(raw_signals) : raw_signals[s].processed

\* C13 (as claimed): a run of a lab resolves, sends to compression, records
\* and marks only signals of that lab: every signal in the batch of an
\* attempt, in the signal set of a run row and among the rows a session has
\* marked belongs to the lab of the run.
C13_OnlyOwnSignals ==
    /\ \A w \in Workers :
          /\ \A s \in task[w].signals : raw_signals[s].lab_id = task[w].lab_id
          /\ \A s \in session[w].marked : raw_signals[s].lab_id = task[w].lab_id
          /\ session[w].run # <<>> =>
                \A s \in session[w].run[1].signals_processed :
                    raw_signals[s].lab_id = session[w].run[1].lab_id
    /\ \A i \in 1..Len(distillation_runs) :
          \A s \in distillation_runs[i].signals_processed :
              raw_signals[s].lab_id = distillation_runs[i].lab_id

\* the worker executes an invocation of the task body
InAttempt(w) == task[w].pc \in {"selected", "reserved", "marked", "flushed", "raised", "failed"}

\* C14 (as claimed): counting the first one, a request never has more than
\* 3 invocations.
C14_AtMostThreeAttempts ==
    \A w \in Workers : InAttempt(w) => task[w].retries + 1 <= 3

\* C14 (amended): counting the first one, a request never has more than
\* max_retries + 1 = 4 invocations: the first and at most max_retries
\* re-invocations.
C14_AtMostFourAttempts ==
    \A w \in Workers : InAttempt(w) => task[w].retries + 1 <= max_retries + 1

C14_Witness ==
    \E w \in Workers : task[w].pc = "failed" /\ task[w].retries + 1 = max_retries + 1

\* C15: the countdown set for the re-invocation after the failure of attempt
\* k is 10 for k = 0 and twice the previous countdown after that, and the
\* countdowns that are set are 10, 20 and 40 seconds.
C15_DelayDoubles ==
    [][ \A w \in Workers :
          (task[w].pc = "failed" /\ task'[w].retries = task[w].retries + 1)
             => /\ task'[w].countdown =
                      (IF task[w].retries = 0 THEN 10 ELSE 2 * task[w].countdown)
                /\ task'[w].countdown \in {10, 20, 40} ]_vars

C15_Witness ==
    \E w \in Workers : task[w].retries = 3 /\ task[w].countdown = 40

\* C16 (as claimed): an attempt of a request with signal_ids = none selects
\* every signal of the lab that is unprocessed when it selects its batch,
\* and when the attempt commits every signal of its batch is processed.
C16_NoneSelectsAllUnprocessed ==
    [][ \A w \in Workers :
          /\ (task[w].pc # "selected" /\ task'[w].pc = "selected"
                 /\ task'[w].signal_ids = NoRequest)
               => task'[w].ids = Unprocessed(task'[w].lab_id)
          /\ (task[w].pc = "flushed" /\ task'[w].pc = "completed"
                 /\ task[w].signal_ids = NoRequest)
               => \A s \in task[w].ids : raw_signals'[s].processed ]_vars

\* C17: whenever a step changes what other transactions can see of the
\* version log, of the run table or of the flags of existing signals, that one
\* step adds exactly one lab_states row and one run row, the run row is
\* completed with completed_at set and is the run of that version, and every
\* signal of the run's batch is processed after the step: the three effects
\* become visible together or not at all.
C17_CommitIsAtomic ==
    [][ (\/ lab_states' # lab_states
         \/ distillation_runs' # distillation_runs
         \/ \E s \in 1..Len(raw_signals) : raw_signals'[s] # raw_signals[s])
        => /\ Len(lab_states') = Len(lab_states) + 1
           /\ Len(distillation_runs') = Len(distillation_runs) + 1
           /\ LET v == lab_states'[Len(lab_states')]
                  r == distillation_runs'[Len(distillation_runs')]
              IN /\ r.status = "completed"
                 /\ r.completed_at
                 /\ r.lab_id = v.lab_id
                 /\ r.output_state_version = v.version
                 /\ r.signals_processed # {}
                 /\ \A s \in r.signals_processed : raw_signals'[s].processed
                 /\ \A s \in 1..Len(raw_signals) :
                       (raw_signals'[s] # raw_signals[s]) => s \in r.signals_processed ]_vars

C17_Witness ==
    \E w \in Workers, o \in Workers :
        /\ task[w].pc = "completed"
        /\ lab_states # <<>>
        /\ task[o].pc \in {"reserved", "marked"}

\* C18: the run row an attempt creates has input version = the largest
\* committed version of the lab at the step that starts the attempt and
\* output version = input version + 1; when the lab has no version the input
\* version is none, the output version is 1 and the state given to the
\* compression is the empty state with signal_count 0.  Every persisted run
\* row keeps output version = input version + 1 (1 for none).
C18_RunVersions ==
    [][ /\ \A w \in Workers :
             (task[w].pc = "selected" /\ task'[w].pc = "reserved")
                => LET r == session'[w].run[1]
                       vs == LabVersions(lab_states, task[w].lab_id)
                   IN /\ r.lab_id = task[w].lab_id
                      /\ IF vs = {}
                         THEN /\ r.input_state_version = None
                              /\ r.output_state_version = 1
                              /\ task'[w].current_state_data.signal_count = 0
                              /\ task'[w].current_state_data = create_empty_state
                         ELSE /\ r.input_state_version \in vs
                              /\ \A v \in vs : v <= r.input_state_version
                              /\ r.output_state_version = r.input_state_version + 1
        /\ \A i \in 1..Len(distillation_runs') :
             distillation_runs'[i].output_state_version =
                (IF distillation_runs'[i].input_state_version = None THEN 1
                 ELSE distillation_runs'[i].input_state_version + 1) ]_vars

C18_Witness ==
    \E w \in Workers :
        /\ session[w].run # <<>>
        /\ session[w].run[1].input_state_version = 1
        /\ session[w].run[1].output_state_version = 2
        /\ \E i \in 1..Len(distillation_runs) :
              distillation_runs[i].input_state_version = None

\* C19 (as claimed): the status of a run only moves from running to
\* completed or from running to failed: once the run of a session is
\* completed or failed no step changes its status or completed_at, and no
\* step changes a persisted run row.
C19_StatusTerminal ==
    [][ /\ \A w \in Workers :
             (/\ session[w].run # <<>>
              /\ session'[w].run # <<>>
              /\ session[w].run[1].status \in {"completed", "failed"})
                => /\ session'[w].run[1].status = session[w].run[1].status
                   /\ session'[w].run[1].completed_at = session[w].run[1].completed_at
        /\ \A i \in 1..Len(distillation_runs) :
             /\ Len(distillation_runs') >= Len(distillation_runs)
             /\ distillation_runs'[i] = distillation_runs[i] ]_vars

\* C20: a committed lab_states row is never changed and never deleted: every
\* step keeps each row of the log, with its version, state and token_count,
\* at its place.
C20_LogAppendOnly ==
    [][ /\ Len(lab_states') >= Len(lab_states)
        /\ \A i \in 1..Len(lab_states) : lab_states'[i] = lab_states[i] ]_vars

C20_Witness ==
    /\ Len(lab_states) >= 2
    /\ \E w \in Workers : task[w].pc = "failed" /\ task[w].retries > 0

\* C21: a mutating request whose primary operation has been committed (a
\* signal or a lab) is answered 201 with the body its handler returned,
\* whether its audit entry was written or the audit insert failed; the
\* failure only leaves audit_logs without the entry, and the audit step
\* changes no lab and no signal.
C21_AuditFailureSwallowed ==
    [][ \A c \in Clients :
          (request[c].pc = "committed" /\ request'[c].pc = "idle")
             => /\ response'.op = request[c].op
                /\ response'.status = 201
                /\ response'.body = request[c].body
                /\ audit_logs' \in {audit_logs, audit_logs + 1}
                /\ UNCHANGED <<labs, clerk_org_id, raw_signals>> ]_vars

C21_Witness ==
    /\ response.op = "create_signal"
    /\ response.status = 201
    /\ response.body # <<>>
    /\ audit_logs = 0
    /\ Len(raw_signals) > 0
    /\ labs # {}

\* C22: no two committed labs have the same organisation and no two open
\* requests both hold a flushed insert for one organisation; a create_lab for
\* an organisation that has a lab is answered 409 and changes nothing.
C22_OneLabPerOrg ==
    [][ /\ \A a \in labs', b \in labs' : clerk_org_id'[a] = clerk_org_id'[b] => a = b
        /\ \A a \in Clients, b \in Clients :
              (a # b /\ request'[a].pc = "flushed" /\ request'[b].pc = "flushed")
                 => request'[a].org # request'[b].org
        /\ \A c \in Clients, org \in Orgs :
              (create_lab_check(c, org) /\ \E l \in labs : clerk_org_id[l] = org)
                 => /\ response' = Answer("create_lab", 409, NoLab,
                                           Detail("Lab already exists for this organization"))
                    /\ UNCHANGED <<labs, clerk_org_id, request, audit_logs, raw_signals>> ]_vars

C22_Witness ==
    /\ response = Answer("create_lab", 500, NoLab, <<>>)
    /\ \E l \in labs : clerk_org_id[l] = "orgA"
    /\ \E l \in labs : clerk_org_id[l] = "orgB"

\* C23 (as claimed): an attempt that failed with the no-signals error is not
\* followed by another attempt of the same request: the next step of the
\* worker is not a re-invocation.
C23_NoSignalsNotRetried ==
    [][ \A w \in Workers :
          (task[w].pc = "failed" /\ task[w].reason = "no_signals" /\ task'[w] # task[w])
             => ~(task'[w].retries = task[w].retries + 1 /\ task'[w].pc = "selected") ]_vars

\* C24: an attempt that is about to call the compression holds a run row
\* with status running, its computed output version and its resolved signal
\* set; and every attempt whose session or failure shows the outcome of a
\* compression call holds the run row it reserved.
C24_ReservedBeforeCompression ==
    \A w \in Workers :
        /\ task[w].pc = "reserved" =>
              /\ session[w].run # <<>>
              /\ session[w].run[1].id = task[w].run_id
              /\ session[w].run[1].status = "running"
              /\ ~session[w].run[1].completed_at
              /\ session[w].run[1].output_state_version = task[w].new_version
              /\ session[w].run[1].signals_processed = task[w].signals
              /\ session[w].run[1].signals_processed # {}
              /\ session[w].new_state = <<>>
        /\ (\/ session[w].new_state # <<>>
            \/ session[w].marked # {}
            \/ (task[w].pc = "raised"
                   /\ task[w].reason \in {"timeout", "unparseable", "invalid"}))
              => /\ session[w].run # <<>>
                 /\ task[w].run_id # 0
                 /\ session[w].run[1].id = task[w].run_id

C24_Witness ==
    \E w \in Workers :
        /\ task[w].pc = "raised"
        /\ task[w].reason = "timeout"
        /\ session[w].run # <<>>
        /\ task[w].retries > 0

\* C25: an attempt of a request that has lost a version to a conflict
\* targets a version above the one it lost: its input version is a committed
\* version not below the lost one, its target is that version + 1 and the
\* state it compresses is the committed snapshot of its input version.
C25_RetryTargetsNewVersion ==
    \A w \in Workers :
        (task[w].lost # 0 /\ task[w].pc \in {"reserved", "marked", "flushed"})
           => /\ task[w].new_version > task[w].lost
              /\ task[w].input_version >= task[w].lost
              /\ task[w].new_version = task[w].input_version + 1
              /\ \E i \in VersionRows(task[w].lab_id, task[w].input_version) :
                    lab_states[i].state = task[w].current_state_data

C25_Witness ==
    \E w \in Workers :
        /\ task[w].lost = 1
        /\ task[w].pc = "flushed"
        /\ task[w].new_version = 2
        /\ task[w].current_state_data.signal_count > 0

\* C26 (as claimed): the re-invocation of a request with signal_ids = none
\* selects its batch from the signals of the lab that are unprocessed at
\* that step: the batch holds only such signals, it holds every signal of
\* the failed attempt's batch that is still unprocessed, and it holds all
\* unprocessed signals, those ingested since included, when they are within
\* the limit.
C26_RetrySelectsAfresh ==
    [][ \A w \in Workers :
          (task[w].pc = "failed" /\ task'[w].pc = "selected"
             /\ task[w].signal_ids = NoRequest)
             => /\ task'[w].ids # {}
                /\ task'[w].ids \subseteq Unprocessed(task[w].lab_id)
                /\ {s \in task[w].ids : ~raw_signals[s].processed} \subseteq task'[w].ids
                /\ Cardinality(task'[w].ids) <= DefaultLimit
                /\ Cardinality(Unprocessed(task[w].lab_id)) <= DefaultLimit
                      => task'[w].ids = Unprocessed(task[w].lab_id) ]_vars

\* C27: the measured token count is no cause of failure and does not change
\* what an attempt writes: an attempt raises only for missing signals, a
\* failed compression call, an unparseable or invalid response, a storage
\* error or a version conflict; a session that holds a new version holds it
\* with a measured count, the completed run and the marks of the run's
\* batch; and every committed version, over the budget or not, has its
\* completed run with the signals of the run processed.
C27_OverBudgetStillCommits ==
    /\ \A w \in Workers :
          /\ task[w].pc = "raised" =>
                task[w].reason \in {"no_signals", "timeout", "unparseable", "invalid",
                                    "storage", "conflict"}
          /\ task[w].pc \in {"marked", "flushed"} =>
                /\ session[w].new_state # <<>>
                /\ session[w].new_state[1].token_count \in sizes
                /\ session[w].new_state[1].version = task[w].new_version
                /\ session[w].run[1].status = "completed"
                /\ session[w].marked = session[w].run[1].signals_processed
    /\ \A i \in 1..Len(lab_states) :
          /\ lab_states[i].token_count \in sizes
          /\ \E r \in CompletedRuns(lab_states[i].lab_id, lab_states[i].version) :
                /\ distillation_runs[r].completed_at
                /\ \A s \in distillation_runs[r].signals_processed : raw_signals[s].processed

C27_Witness ==
    /\ \E i \in 1..Len(lab_states) : lab_states[i].token_count > max_state_tokens
    /\ \E i \in 1..Len(lab_states) : lab_states[i].token_count <= max_state_tokens
    /\ \A s \in 1..Len(raw_signals) : raw_signals[s].processed

\* what the commit of a version left behind besides the version's own
\* identity, content and token_count
CommitTrace(i) ==
    LET r == CHOOSE j \in CompletedRuns(lab_states[i].lab_id, lab_states[i].version) : TRUE
    IN <<distillation_runs[r].status, distillation_runs[r].completed_at,
         OnOverBudget(lab_states[i].token_count)>>

\* C28 (as claimed): a committed version over the budget differs from a
\* committed version within the budget in something other than the stored
\* token_count.
C28_OverBudgetSurfaced ==
    \A i \in 1..Len(lab_states), j \in 1..Len(lab_states) :
        (lab_states[i].token_count > max_state_tokens
           /\ lab_states[j].token_count <= max_state_tokens)
           => CommitTrace(i) # CommitTrace(j)

\* C29: a response that holds a state document in a fenced block, with or
\* without an info string after the opening fence and white space around the
\* block, parses to the candidate the document parses to when it is returned
\* as it is; the parse does not fail and loses no token of the document.
C29_FencedParsesAsPlain ==
    reply.pc = "parsed" =>
        /\ reply.candidate = parse_response(reply.document)
        /\ reply.candidate = json_loads(reply.document)
        /\ reply.candidate # ParseError
        /\ reply.candidate = SelectSeq(reply.document, LAMBDA x : x \in JsonTokens)

C29_Witness ==
    /\ reply.pc = "parsed"
    /\ reply.form = "padded"
    /\ Len(split(reply.document)) = 2
    /\ Len(reply.candidate) = 2

\* the committed versions of a lab that no version of the lab exceeds
NewestVersions(lab) ==
    {i \in 1..Len(lab_states) :
        /\ lab_states[i].lab_id = lab
        /\ \A j \in 1..Len(lab_states) :
              lab_states[j].lab_id = lab => lab_states[j].version <= lab_states[i].version}

\* C30: a GET of the current state of a lab answers 200 with the committed
\* version of that lab that has the largest version number, and answers 404
\* only when the lab has no version; the read that starts an attempt takes
\* the version number and the content of that same newest version, and the
\* empty state only when the lab has no version.
C30_ReadsNewestVersion ==
    [][ /\ \A lab \in Labs :
              get_current_state(OrgOfLab[lab], lab) =>
                 IF NewestVersions(lab) = {}
                 THEN response'.status = 404 /\ response'.body = Detail("No state found")
                 ELSE /\ response'.status = 200
                      /\ \E i \in NewestVersions(lab) : response'.body = <<lab_states[i]>>
        /\ \A w \in Workers :
              (task[w].pc = "selected" /\ task'[w].pc = "reserved") =>
                 IF NewestVersions(task[w].lab_id) = {}
                 THEN /\ task'[w].input_version = None
                      /\ task'[w].current_state_data = create_empty_state
                 ELSE \E i \in NewestVersions(task[w].lab_id) :
                        /\ task'[w].input_version = lab_states[i].version
                        /\ task'[w].current_state_data = lab_states[i].state ]_vars

C30_Witness ==
    /\ response.op = "get_current_state"
    /\ response.status = 200
    /\ response.body[1].version = 2
    /\ \E r \in 1..Len(distillation_runs) : distillation_runs[r].input_state_version = 1

\* C31: a create_signal request that is accepted adds exactly one row to
\* raw_signals, when its session commits: a row of the lab of the path, not
\* processed; the rows that existed, the versions, the committed runs, the
\* run ids handed out, the tasks of the workers and their sessions are as
\* they were after each of the three steps of the request (the insert, the
\* commit, the audit entry), and the other two steps add no row.
C31_CreateSignalAddsOne ==
    [][ \A c \in Clients :
          /\ (request[c].pc = "idle" /\ request'[c].pc = "signal_flushed")
                => /\ request'[c].lab \in labs
                   /\ request'[c].row[1].lab_id = request'[c].lab
                   /\ UNCHANGED <<raw_signals, lab_states, distillation_runs, run_seq,
                                  task, session>>
          /\ (request[c].pc = "signal_flushed" /\ request'[c].pc = "committed")
                => /\ Len(raw_signals') = Len(raw_signals) + 1
                   /\ SubSeq(raw_signals', 1, Len(raw_signals)) = raw_signals
                   /\ raw_signals'[Len(raw_signals')].lab_id = request[c].lab
                   /\ raw_signals'[Len(raw_signals')].processed = FALSE
                   /\ UNCHANGED <<lab_states, distillation_runs, run_seq, task, session>>
          /\ (request[c].pc = "committed" /\ request'[c].pc = "idle"
                 /\ request[c].op = "create_signal")
                => /\ response' = Answer("create_signal", 201, request[c].lab, request[c].body)
                   /\ UNCHANGED <<raw_signals, lab_states, distillation_runs, run_seq,
                                  task, session>> ]_vars

C31_Witness ==
    /\ Len(raw_signals) = 2
    /\ raw_signals[1].processed
    /\ raw_signals[1].lab_id = "labA"
    /\ raw_signals[2].lab_id = "labB"
    /\ ~raw_signals[2].processed
    /\ response.op = "create_signal" /\ response.status = 201 /\ response.lab = "labB"
    /\ response.body[1].id = 2
    /\ lab_states # <<>>

\* C32: a create_signal request for a lab of the user's organisation whose
\* content does not validate against the content schema of its signal_type
\* is answered 422 and inserts no row; the content of every signal that is
\* stored, or inserted and not yet committed, validates against the schema
\* of the signal's type.
C32_InvalidContentRejected ==
    [][ /\ \A c \in Clients, org \in Orgs, lab \in Labs, signal_in \in SignalInputs :
              (/\ lab \in labs /\ clerk_org_id[lab] = org
               /\ signal_in.signal_type \notin signal_in.content
               /\ create_signal(c, org, lab, signal_in))
                 => /\ response'.status = 422
                    /\ raw_signals' = raw_signals
                    /\ request' = request
        /\ \A i \in 1..Len(raw_signals') :
              raw_signals'[i].signal_type \in raw_signals'[i].content
        /\ \A c \in Clients :
              request'[c].pc = "signal_flushed"
                 => request'[c].row[1].signal_type \in request'[c].row[1].content ]_vars

C32_Witness ==
    /\ response.op = "create_signal"
    /\ response.status = 422
    /\ Len(raw_signals) = 3
    /\ raw_signals[3].signal_type = "document"
    /\ raw_signals[3].content = {"experiment", "document"}

\* the requests of a user of organisation org that name lab
RouteRequest(org, lab) ==
    \/ \E c \in Clients, signal_in \in SignalInputs : create_signal(c, org, lab, signal_in)
    \/ \E c \in Clients, processed \in ProcessedFilters : list_signals(c, org, lab, processed)
    \/ \E c \in Clients, signal_id \in 1..(Len(raw_signals) + 1) :
          get_signal(c, org, lab, signal_id)
    \/ get_current_state(org, lab)
    \/ \E c \in Clients : get_state_history(c, org, lab)
    \/ \E version \in 1..2 : get_state_version(org, lab, version)

\* C33: every signal and state route answers a user of one organisation who
\* names a lab of another organisation with 404 "Lab not found"; the answer
\* holds no signal and no state, no table is changed and no row is inserted.
C33_ForeignLabNotFound ==
    [][ \A org \in Orgs, lab \in Labs :
          (lab \in labs /\ clerk_org_id[lab] # org /\ RouteRequest(org, lab))
             => /\ response'.status = 404
                /\ response'.lab = lab
                /\ response'.body = Detail("Lab not found")
                /\ UNCHANGED <<raw_signals, lab_states, distillation_runs, audit_logs,
                               request>> ]_vars

C33_Witness ==
    /\ response.op = "list_signals"
    /\ response.lab = "labB"
    /\ response.body = Detail("Lab not found")
    /\ clerk_org_id["labB"] = "orgB"
    /\ \E i \in 1..Len(raw_signals) : raw_signals[i].lab_id = "labB" /\ ~raw_signals[i].processed
    /\ \E i \in 1..Len(lab_states) : lab_states[i].lab_id = "labB"

\* C34: a request that a worker has taken reaches its end: the task returns
\* completed or no_signals, or gives up with the last error, whatever the
\* compression calls and the flushes of its attempts do.
C34_RetryChainTerminates ==
    \A w \in Workers :
        (task[w].pc = "selected")
            ~> (task[w].pc \in {"completed", "no_signals", "gave_up"})

C34_Witness ==
    /\ task["w1"].pc = "gave_up"
    /\ run_seq = max_retries + 1
    /\ distillation_runs = <<>>
    /\ \A i \in 1..Len(raw_signals) : ~raw_signals[i].processed

\* the signals a signal of the lab waits behind: the unprocessed signals of
\* its lab that are older than it, committed or inserted by a request that
\* has not committed yet
Ahead(s) ==
    Cardinality({i \in 1..Len(raw_signals) :
                    /\ raw_signals[i].lab_id = raw_signals[s].lab_id
                    /\ ~raw_signals[i].processed
                    /\ raw_signals[i].created_at < raw_signals[s].created_at})
    + Cardinality({c \in PendingSignals :
                      /\ request[c].row[1].lab_id = raw_signals[s].lab_id
                      /\ request[c].row[1].created_at < raw_signals[s].created_at})

\* C35: with triggers for signal_ids = none sent again and again, signals
\* that are ingested while attempts run, and attempts that succeed from the
\* third run id on: no step, and so no ingestion, puts a signal ahead of a
\* signal that waits; every run that commits a batch taken while a signal
\* was waiting marks that signal processed or marks DefaultLimit signals
\* that were ahead of it; and again and again no ingested signal is left
\* unprocessed.  A waiting signal is therefore marked after finitely many
\* successful runs, however many signals are ingested behind it.
C35_NoStarvation ==
    /\ [][ /\ \A s \in 1..Len(raw_signals) :
                 ~raw_signals[s].processed => Ahead(s)' <= Ahead(s)
           /\ \A w \in Workers :
                 (task[w].pc = "flushed" /\ task'[w].pc = "completed"
                     /\ task[w].signal_ids.none)
                    => \A s \in 1..task[w].seen :
                          (raw_signals[s].lab_id = task[w].lab_id /\ ~raw_signals[s].processed)
                             => \/ raw_signals'[s].processed
                                \/ Ahead(s)' = Ahead(s) - DefaultLimit ]_vars
    /\ []<>(\A i \in 1..Len(raw_signals) : raw_signals[i].processed)

\* a signal waits behind a full batch that a third attempt has flushed, and
\* signals have been ingested, and are being ingested, since the batch was
\* taken
C35_Witness ==
    \E w \in Workers :
        /\ task[w].pc = "flushed"
        /\ task[w].signal_ids.none
        /\ run_seq = 3
        /\ Cardinality(task[w].ids) = DefaultLimit
        /\ task[w].seen = DefaultLimit + 1
        /\ Len(raw_signals) = DefaultLimit + 2
        /\ \E s \in 1..task[w].seen :
              /\ s \notin task[w].ids
              /\ ~raw_signals[s].processed
              /\ Ahead(s) = DefaultLimit

\* C36: no committed distillation_runs row has status running: a run row
\* with status running exists only among the uncommitted writes of the
\* session of its attempt, and every committed run row is terminal, with
\* completed_at set, and was committed with its id by one session only.
C36_NoCommittedRunning ==
    /\ \A i \in 1..Len(distillation_runs) :
          /\ distillation_runs[i].status \in {"completed", "failed"}
          /\ distillation_runs[i].completed_at
    /\ \A w \in Workers :
          session[w].run # <<>> => PersistedRun(session[w].run[1].id) = {}

C36_Witness ==
    /\ distillation_runs # <<>>
    /\ \E w \in Workers :
          /\ session[w].run # <<>>
          /\ session[w].run[1].status = "running"
          /\ task[w].pc = "reserved"

\* C37: every committed version (lab, v) has exactly one committed completed
\* run of the lab with output version v; every committed completed run has
\* exactly one committed version of its lab with its output version; and
\* when an attempt has failed, a committed version with the number the
\* attempt computed was committed by the run of another attempt.
C37_VersionsMatchCompletedRuns ==
    /\ \A i \in 1..Len(lab_states) :
          Cardinality(CompletedRuns(lab_states[i].lab_id, lab_states[i].version)) = 1
    /\ \A r \in 1..Len(distillation_runs) :
          distillation_runs[r].status = "completed" =>
             Cardinality(VersionRows(distillation_runs[r].lab_id,
                                     distillation_runs[r].output_state_version)) = 1
    /\ \A r \in 1..Len(distillation_runs) :
          distillation_runs[r].status = "failed" =>
             VersionRows(distillation_runs[r].lab_id,
                         distillation_runs[r].output_state_version) = {}
    /\ \A w \in Workers :
          (task[w].pc \in {"raised", "failed"} /\ task[w].run_id # 0) =>
             \A r \in CompletedRuns(task[w].lab_id, task[w].new_version) :
                distillation_runs[r].id # task[w].run_id

C37_Witness ==
    /\ Len(lab_states) = 1
    /\ Len(distillation_runs) = 1
    /\ \E w \in Workers :
          /\ task[w].pc = "failed"
          /\ task[w].run_id # 0
          /\ task[w].run_id # distillation_runs[1].id
          /\ task[w].new_version = lab_states[1].version

\* C38: for every lab and limits from 0 to above the default,
\* get_unprocessed_signals returns only
\* unprocessed signals of the lab, as many as there are up to the limit, in
\* ascending order of creation, and every unprocessed signal of the lab it
\* leaves out is newer than the newest, hence than every, signal it returns;
\* the default limit is 10.
C38_OldestUnprocessedFirst ==
    /\ DefaultLimit = 10
    /\ \A lab \in Labs, limit \in {0, 1, DefaultLimit - 1, DefaultLimit, DefaultLimit + 1} :
        \A signals \in {get_unprocessed_signals(raw_signals, lab, limit)},
           found \in {{i \in 1..Len(raw_signals) :
                          raw_signals[i].lab_id = lab /\ ~raw_signals[i].processed}} :
           /\ \A k \in 1..Len(signals) : signals[k] \in found
           /\ Len(signals) <= limit
           /\ Len(signals) = (IF Cardinality(found) < limit THEN Cardinality(found) ELSE limit)
           /\ \A k \in 1..(Len(signals) - 1) :
                 raw_signals[signals[k]].created_at < raw_signals[signals[k + 1]].created_at
           /\ Len(signals) > 0 =>
                 \A s \in found \ SeqToSet(signals) :
                    raw_signals[signals[Len(signals)]].created_at < raw_signals[s].created_at

C38_Witness ==
    /\ Cardinality(Unprocessed("labA")) = DefaultLimit
    /\ \E i \in 1..Len(raw_signals), j \in 1..Len(raw_signals) :
          i < j /\ raw_signals[j].created_at < raw_signals[i].created_at
    /\ raw_signals[1].processed
    /\ \E w \in Workers :
          /\ task[w].pc = "selected"
          /\ task[w].signal_ids = NoRequest
          /\ task[w].ids = Unprocessed("labA")
====
